---- MODULE Spec2Model ----
(***************************************************************************)
(* Model of the native smart-account factory toNativeSmartAccount          *)
(* (src/experimental/rip7560/accounts/toNativeSmartAccount.ts).            *)
(*                                                                         *)
(* One SmartAccount value is modelled.  Every exposed operation is an      *)
(* async function: it runs synchronously up to its first await, and each   *)
(* later step is the arrival of the awaited result (a code-existence       *)
(* probe, the implementation's getDeployerArgs, the implementation's       *)
(* signing operation, the nonce-key source, a nonce lookup).  Calls that   *)
(* are in flight are kept in the bag `calls`; a call that has delivered    *)
(* its outcome stays in the bag until the caller drops it (Forget).        *)
(***************************************************************************)
EXTENDS Integers, Sequences, FiniteSets, Bags, TLC

\* ---------------------------------------------------------------- bounds
\* number of calls that may be in flight (or held by the caller) at once
MaxCalls == 2

\* ---------------------------------------------------------------- values
\* JavaScript `undefined`
Undefined == "undefined"
\* the address implementation.getAddress() resolves to at construction
Addrs == {"0xA1"}
\* what implementation.getAddress() could answer if it were asked again later
LaterAddrs == Addrs \cup {"0xA2"}
\* what getCode answers: undefined (no code) or the contract's bytecode
CodeValues == {Undefined, "0x6080"}
\* deployer address / deployer calldata an implementation may return
Deployers == {"0xD"}
DeployerDatas == {"0xX"}
\* raw signatures the implementation's signing operations may return
Sigs == {<<"s1">>}
\* nonce keys: a caller-supplied key, or what the nonce-key source hands out
Keys == {0, 7}
NoKey == -1
\* nonces the lookup may answer
Nonces == {5}
NoNonce == -1
\* failures of the external collaborators
EAddress == "err:getAddress"
EProbe == "err:getCode"
EImplArgs == "err:impl.getDeployerArgs"
ESign == "err:impl.sign"
EConsume == "err:nonceKeyManager.consume"
ENonce == "err:nonce lookup"
Errors == {EAddress, EProbe, EImplArgs, ESign, EConsume, ENonce}
\* the ERC-6492 magic suffix
Erc6492Magic == "6492649264926492"

SignOps == {"sign", "signMessage", "signTypedData"}

VARIABLES
    phase,          \* position of toNativeSmartAccount: "constructing", "ready", "failed"
    returned,       \* TRUE once a SmartAccount value has been returned to the caller
    ctorError,      \* the failure toNativeSmartAccount threw, or Undefined
    address,        \* const address (line 1481), Undefined before it is resolved
    deployed,       \* let deployed (line 1479)
    impl,           \* which optional capabilities the implementation supplies
    getAddressCalls,\* how often the factory has called implementation.getAddress()
    calls,          \* bag of the calls in flight or held by the caller
    everTrue,       \* history: some isDeployed() call has returned true
    overlap         \* history: a probe was issued while another one was in flight

\* the factory's state
factoryVars == <<phase, returned, ctorError, address, deployed, impl,
                 getAddressCalls, calls, everTrue, overlap>>

VARIABLES
    cc,             \* the Simple implementation's call codec: one encodeCalls / decodeCalls run
    sa,             \* two Simple implementations serving one signing request
    tw,             \* two SmartAccount values side by side
    ob,             \* the object toNativeSmartAccount returns, field by field
    fr,             \* the implementation's own operations called on a SmartAccount
    ct              \* the account contract SimpleAccount_7560 serving one transaction

\* the state of the parts that are studied on their own
others == <<cc, sa, tw, ob, fr, ct>>

vars == <<phase, returned, ctorError, address, deployed, impl,
          getAddressCalls, calls, everTrue, overlap, cc, sa, tw, ob, fr, ct>>

\* ---------------------------------------------------------------- helpers
\* the parts studied on their own, when they are not in use
SaIdle == [pc |-> "idle"]
TwIdle == [pc |-> "idle"]
ObIdle == [pc |-> "idle"]
FrIdle == [pc |-> "idle"]
CtIdle == [pc |-> "idle"]

\* the codec when it is not in use
NoCalldata == [selector |-> "none", args |-> <<>>]
CcIdle == [pc |-> "idle", calls |-> <<>>, data |-> NoCalldata, out |-> <<>>, err |-> "none",
           lengths |-> "none"]

\* Boolean(code) of line 1525: undefined and the empty string are falsy
ToBoolean(v) == v # Undefined /\ v # ""

BoolStr(b) == IF b THEN "true" ELSE "false"

\* { deployer: undefined, deployerData: undefined } of line 1489
NoArgs == [deployer |-> Undefined, deployerData |-> Undefined]

\* what an implementation's getDeployerArgs may resolve to (types.ts 83-86:
\* both fields are optional, independently of each other)
ImplArgsValues ==
    [deployer : Deployers \cup {Undefined}, deployerData : DeployerDatas \cup {Undefined}]

\* serializeErc6492Signature({address, data, signature}): the ABI encoding of
\* (address, data, signature) followed by the magic suffix
Wrap(a, d, s) == <<a, d>> \o s \o <<Erc6492Magic>>

IsWrapped(b) == Len(b) >= 3 /\ b[Len(b)] = Erc6492Magic

Unwrap(b) ==
    [address |-> b[1], data |-> b[2], signature |-> SubSeq(b, 3, Len(b) - 1)]

\* a call record before anything has happened in it
NewCall(op) ==
    [op         |-> op,
     keyArg     |-> NoKey,        \* getNonce: parameters.key
     startCache |-> FALSE,        \* history: `deployed` when the deployment check ran line 1517
     after      |-> FALSE,        \* history: started after an isDeployed() had returned true
     chk        |-> "none",       \* deployment check: none, probing, implArgs, done
     code       |-> Undefined,    \* what getCode answered
     probeAddr  |-> Undefined,    \* the address the probe was issued for
     probes     |-> 0,            \* probes issued by this call
     wrote      |-> "none",       \* value this call assigned to `deployed`
     dep        |-> "none",       \* result of this.isDeployed(): none, true, false, or an error
     implArgsN  |-> 0,            \* invocations of implementation.getDeployerArgs()
     implArgs   |-> NoArgs,       \* what implementation.getDeployerArgs() resolved to
     argsSt     |-> "none",       \* this.getDeployerArgs(): none, pending, ok, or an error
     args       |-> NoArgs,       \* what this.getDeployerArgs() resolved to
     sgSt       |-> "none",       \* implementation's signing operation: none, pending, ok, or an error
     sig        |-> <<>>,         \* what it resolved to
     firstFail  |-> "none",       \* history: which side of Promise.all rejected first
     nonceSt    |-> "none",       \* getNonce: none, consuming, implNonce, lookup
     key        |-> NoKey,        \* getNonce: the key in use
     keyAddr    |-> Undefined,    \* address handed to nonceKeyManager.consume
     lookupAddr |-> Undefined,    \* address handed to the default lookup
     outSt      |-> "pending",    \* outcome: pending, ok, or the error the call rejected with
     outBool    |-> "none",       \* isDeployed(): "true" / "false"
     outArgs    |-> NoArgs,       \* getDeployerArgs()
     outSig     |-> <<>>,         \* sign / signMessage / signTypedData
     outNonce   |-> NoNonce]      \* getNonce()

InFlight == BagToSet(calls)

Replace(c, d) == (calls (-) SetToBag({c})) (+) SetToBag({d})

\* a probe of some call is still travelling
ProbePending == \E c \in InFlight : c.chk = "probing"

\* ---------------------------------------------------------------- construction
Init ==
    /\ phase = "constructing"
    /\ returned = FALSE
    /\ ctorError = Undefined
    /\ address = Undefined
    /\ deployed = FALSE
    /\ impl \in {[hasSign |-> b, hasGetNonce |-> b] : b \in BOOLEAN}
    /\ getAddressCalls = 0
    /\ calls = EmptyBag
    /\ everTrue = FALSE
    /\ overlap = FALSE
    /\ cc = CcIdle
    /\ sa = SaIdle
    /\ tw = TwIdle
    /\ ob = ObIdle
    /\ fr = FrIdle
    /\ ct = CtIdle


\* line 1481: const address = await implementation.getAddress()
ResolveAddress ==
    /\ phase = "constructing"
    /\ \E a \in Addrs :
        /\ address' = a
        /\ phase' = "ready"
        /\ returned' = TRUE
    /\ getAddressCalls' = getAddressCalls + 1
    /\ UNCHANGED <<others, ctorError, deployed, impl, calls, everTrue, overlap>>

\* variant: the rejection is caught and a half-built account is handed out
ReturnsAfterAddressFailure_partial == TRUE

\* whether a SmartAccount value reaches the caller when getAddress() rejects:
\* the rejection leaves the async function at line 1481, before the return
ReturnsAfterAddressFailure == FALSE

ResolveAddressFails ==
    /\ phase = "constructing"
    /\ phase' = "failed"
    /\ ctorError' = EAddress
    /\ returned' = ReturnsAfterAddressFailure
    /\ getAddressCalls' = getAddressCalls + 1
    /\ UNCHANGED <<others, address, deployed, impl, calls, everTrue, overlap>>

\* ---------------------------------------------------------------- isDeployed()
\* variant: the cache is never consulted
isDeployedHit_never(d) == FALSE

\* line 1517: if (deployed) return true
isDeployedHit(d) == d

\* variant: the address is resolved again at every use
ProbeTarget_reResolved(resolved, fresh) == fresh

\* lines 1518-1524: the address the probe is issued for; `fresh` is what
\* implementation.getAddress() would answer if it were asked again now
ProbeTarget(resolved, fresh) == resolved

\* variant: the cache is set without looking at the answer
CacheAfterProbe_ignoresAnswer(d, code) == TRUE

\* variant: the answer is returned but not stored
CacheAfterProbe_keepsCache(d, code) == d

\* line 1525: deployed = Boolean(code)
CacheAfterProbe(d, code) == ToBoolean(code)

\* lines 1517-1524, the synchronous part of this.isDeployed()
BeginCheck(c, fresh) ==
    IF isDeployedHit(deployed)
    THEN [c EXCEPT !.startCache = TRUE, !.chk = "done", !.dep = "true"]
    ELSE [c EXCEPT !.startCache = FALSE, !.chk = "probing",
                   !.probeAddr = ProbeTarget(address, fresh),
                   !.probes = @ + 1]

CanStart == returned /\ BagCardinality(calls) < MaxCalls

Launch(c) ==
    /\ calls' = calls (+) SetToBag({c})
    /\ overlap' = (overlap \/ (c.chk = "probing" /\ ProbePending))

StartIsDeployed ==
    /\ CanStart
    /\ \E fresh \in LaterAddrs :
        LET c1 == BeginCheck([NewCall("isDeployed") EXCEPT !.after = everTrue], fresh)
            c2 == IF c1.dep = "true"
                  THEN [c1 EXCEPT !.outSt = "ok", !.outBool = "true"]
                  ELSE c1
        IN  /\ Launch(c2)
            /\ everTrue' = (everTrue \/ c2.outSt = "ok")
    /\ UNCHANGED <<others, phase, returned, ctorError, address, deployed, impl,
                   getAddressCalls>>

\* ---------------------------------------------------------------- getDeployerArgs()
\* variant: no short-circuit, the implementation is always asked
getDeployerArgsGate_never(isDep) == FALSE

\* line 1488: if ('isDeployed' in this && (await this.isDeployed()))
getDeployerArgsGate(isDep) == isDep

\* variant: the implementation is asked first and its answer dropped when deployed
AfterCheck_asksThenDrops(c, isDep) ==
    IF getDeployerArgsGate(isDep)
    THEN [c EXCEPT !.argsSt = "ok", !.args = NoArgs, !.implArgsN = @ + 1]
    ELSE [c EXCEPT !.chk = "implArgs", !.implArgsN = @ + 1]

\* lines 1488-1490 once this.isDeployed() has answered `isDep`
AfterCheck(c, isDep) ==
    IF getDeployerArgsGate(isDep)
    THEN [c EXCEPT !.argsSt = "ok", !.args = NoArgs]
    ELSE [c EXCEPT !.chk = "implArgs", !.implArgsN = @ + 1]

\* variant: a later rejection replaces an earlier one
RejectWith_last(cur, e) == e

\* variant: the rejection is swallowed and the caller keeps waiting
RejectWith_swallowed(cur, e) == cur

\* a promise settles once: a rejection decides the outcome only if it is the first
RejectWith(cur, e) == IF cur = "pending" THEN e ELSE cur

Truthy(v) == v # Undefined /\ v # ""

\* variant: the signature is never wrapped
SignOutput_neverWraps(a, s) == s

\* variant: the signature is wrapped whatever the deployer args are
SignOutput_alwaysWraps(a, s) == Wrap(a.deployer, a.deployerData, s)

\* lines 1535-1541 (and 1550-1556, 1563-1569)
SignOutput(a, s) ==
    IF Truthy(a.deployer) /\ Truthy(a.deployerData)
    THEN Wrap(a.deployer, a.deployerData, s)
    ELSE s

IsErr(st) == st \in Errors

\* variant: the signature is handed out as soon as the implementation has signed
Settle_signatureOnly(c) ==
    IF c.op = "sign" /\ c.outSt = "pending" /\ c.sgSt = "ok"
    THEN [c EXCEPT !.outSt = "ok", !.outSig = c.sig]
    ELSE c

\* what the caller of the operation sees once a part of the call has settled
Settle(c) ==
    IF c.op = "getDeployerArgs"
    THEN IF c.argsSt = "ok" THEN [c EXCEPT !.outSt = "ok", !.outArgs = c.args]
         ELSE IF IsErr(c.argsSt) THEN [c EXCEPT !.outSt = RejectWith(@, c.argsSt)]
         ELSE c
    ELSE IF c.op = "sign"
    THEN IF c.outSt = "pending" /\ c.argsSt = "ok" /\ c.sgSt = "ok"
         THEN [c EXCEPT !.outSt = "ok", !.outSig = SignOutput(c.args, c.sig)]
         ELSE c
    ELSE c

StartGetDeployerArgs ==
    /\ CanStart
    /\ \E fresh \in LaterAddrs :
        LET c0 == [NewCall("getDeployerArgs") EXCEPT !.after = everTrue, !.argsSt = "pending"]
            c1 == BeginCheck(c0, fresh)
            c2 == IF c1.dep = "true" THEN AfterCheck(c1, TRUE) ELSE c1
        IN  Launch(Settle(c2))
    /\ UNCHANGED <<others, phase, returned, ctorError, address, deployed, impl,
                   getAddressCalls, everTrue>>

\* ---------------------------------------------------------------- sign / signMessage / signTypedData
\* lines 1528-1570: Promise.all([this.getDeployerArgs(), implementation.<op>(parameters)]).
\* The three operations have the same body and differ only in the method of the
\* implementation they call, whose answer is the environment's choice; their calls
\* carry op = "sign".  The factory offers sign only if the implementation has it.
StartSign(op) ==
    /\ CanStart
    /\ op = "sign" => impl.hasSign
    /\ \E fresh \in LaterAddrs :
        LET c0 == [NewCall("sign") EXCEPT !.after = everTrue, !.argsSt = "pending"]
            c1 == BeginCheck(c0, fresh)
            c2 == IF c1.dep = "true" THEN AfterCheck(c1, TRUE) ELSE c1
        IN  Launch([c2 EXCEPT !.sgSt = "pending"])
    /\ UNCHANGED <<others, phase, returned, ctorError, address, deployed, impl,
                   getAddressCalls, everTrue>>

\* ---------------------------------------------------------------- arrivals
\* lines 1525-1526: the probe answers
ProbeReturns(c) ==
    /\ c.chk = "probing"
    /\ \E code \in CodeValues :
        LET d  == CacheAfterProbe(deployed, code)
            c1 == [c EXCEPT !.chk = "done", !.code = code,
                            !.wrote = BoolStr(d), !.dep = BoolStr(d)]
            c2 == IF c.op = "isDeployed"
                  THEN [c1 EXCEPT !.outSt = "ok", !.outBool = BoolStr(d)]
                  ELSE Settle(AfterCheck(c1, d))
        IN  /\ deployed' = d
            /\ calls' = Replace(c, c2)
            /\ everTrue' = (everTrue \/ (c.op = "isDeployed" /\ d))
    /\ UNCHANGED <<others, phase, returned, ctorError, address, impl,
                   getAddressCalls, overlap>>

\* the probe fails: the rejection leaves isDeployed() at line 1518
ProbeFails(c) ==
    /\ c.chk = "probing"
    /\ LET c1 == [c EXCEPT !.chk = "done", !.dep = EProbe]
           c2 == IF c.op = "isDeployed"
                 THEN [c1 EXCEPT !.outSt = EProbe]
                 ELSE IF c.op = "getDeployerArgs"
                 THEN Settle([c1 EXCEPT !.argsSt = EProbe])
                 ELSE [c1 EXCEPT !.argsSt = EProbe,
                                 !.outSt = RejectWith(@, EProbe),
                                 !.firstFail = IF @ = "none" THEN "args" ELSE @]
       IN  calls' = Replace(c, c2)
    /\ UNCHANGED <<others, phase, returned, ctorError, address, deployed, impl,
                   getAddressCalls, everTrue, overlap>>

\* line 1490: implementation.getDeployerArgs() answers
ImplArgsReturns(c) ==
    /\ c.chk = "implArgs"
    /\ \E v \in ImplArgsValues :
        calls' = Replace(c, Settle([c EXCEPT !.chk = "done", !.implArgs = v,
                                             !.argsSt = "ok", !.args = v]))
    /\ UNCHANGED <<others, phase, returned, ctorError, address, deployed, impl,
                   getAddressCalls, everTrue, overlap>>

ImplArgsFails(c) ==
    /\ c.chk = "implArgs"
    /\ LET c1 == [c EXCEPT !.chk = "done", !.argsSt = EImplArgs]
           c2 == IF c.op = "getDeployerArgs"
                 THEN Settle(c1)
                 ELSE [c1 EXCEPT !.outSt = RejectWith(@, EImplArgs),
                                 !.firstFail = IF @ = "none" THEN "args" ELSE @]
       IN  calls' = Replace(c, c2)
    /\ UNCHANGED <<others, phase, returned, ctorError, address, deployed, impl,
                   getAddressCalls, everTrue, overlap>>

\* implementation.sign / signMessage / signTypedData answers
ImplSignReturns(c) ==
    /\ c.sgSt = "pending"
    /\ \E s \in Sigs :
        calls' = Replace(c, Settle([c EXCEPT !.sgSt = "ok", !.sig = s]))
    /\ UNCHANGED <<others, phase, returned, ctorError, address, deployed, impl,
                   getAddressCalls, everTrue, overlap>>

ImplSignFails(c) ==
    /\ c.sgSt = "pending"
    /\ calls' = Replace(c, [c EXCEPT !.sgSt = ESign,
                                     !.outSt = RejectWith(@, ESign),
                                     !.firstFail = IF @ = "none" THEN "sign" ELSE @])
    /\ UNCHANGED <<others, phase, returned, ctorError, address, deployed, impl,
                   getAddressCalls, everTrue, overlap>>


\* ---------------------------------------------------------------- getNonce()
\* variant: `||` in place of `??`, so that a supplied key 0n falls through as well
IsNullish_falsy(k) == k = NoKey \/ k = 0

\* line 1494: parameters?.key ?? ...  (only null / undefined fall through)
IsNullish(k) == k = NoKey

\* BigInt(n) of line 1495, for the integers the key source hands out
BigInt(n) == n

\* variant: the default lookup is made whatever the implementation supplies
LookupStage_alwaysDefault(c, k, fresh) ==
    [c EXCEPT !.key = k, !.nonceSt = "lookup", !.lookupAddr = ProbeTarget(address, fresh)]

\* lines 1503-1513 once the key is fixed: the implementation's own getNonce
\* when it supplies one, else the default lookup keyed by (address, key)
LookupStage(c, k, fresh) ==
    IF impl.hasGetNonce
    THEN [c EXCEPT !.key = k, !.nonceSt = "implNonce"]
    ELSE [c EXCEPT !.key = k, !.nonceSt = "lookup",
                   !.lookupAddr = ProbeTarget(address, fresh)]

StartGetNonce(k) ==
    /\ CanStart
    /\ \E fresh \in LaterAddrs :
        LET c0 == [NewCall("getNonce") EXCEPT !.keyArg = k]
            c1 == IF IsNullish(k)
                  THEN [c0 EXCEPT !.nonceSt = "consuming",
                                  !.keyAddr = ProbeTarget(address, fresh)]
                  ELSE LookupStage(c0, k, fresh)
        IN  calls' = calls (+) SetToBag({c1})
    /\ UNCHANGED <<others, phase, returned, ctorError, address, deployed, impl,
                   getAddressCalls, everTrue, overlap>>

\* lines 1495-1501: nonceKeyManager.consume answers
ConsumeReturns(c) ==
    /\ c.nonceSt = "consuming"
    /\ \E k \in Keys, fresh \in LaterAddrs :
        calls' = Replace(c, LookupStage(c, BigInt(k), fresh))
    /\ UNCHANGED <<others, phase, returned, ctorError, address, deployed, impl,
                   getAddressCalls, everTrue, overlap>>

ConsumeFails(c) ==
    /\ c.nonceSt = "consuming"
    /\ calls' = Replace(c, [c EXCEPT !.nonceSt = "done", !.outSt = EConsume])
    /\ UNCHANGED <<others, phase, returned, ctorError, address, deployed, impl,
                   getAddressCalls, everTrue, overlap>>

\* lines 1504 / 1506-1514: the implementation's getNonce or the default lookup answers
NonceReturns(c) ==
    /\ c.nonceSt \in {"implNonce", "lookup"}
    /\ \E n \in Nonces :
        calls' = Replace(c, [c EXCEPT !.nonceSt = "done", !.outSt = "ok", !.outNonce = n])
    /\ UNCHANGED <<others, phase, returned, ctorError, address, deployed, impl,
                   getAddressCalls, everTrue, overlap>>

NonceFails(c) ==
    /\ c.nonceSt \in {"implNonce", "lookup"}
    /\ calls' = Replace(c, [c EXCEPT !.nonceSt = "done", !.outSt = ENonce])
    /\ UNCHANGED <<others, phase, returned, ctorError, address, deployed, impl,
                   getAddressCalls, everTrue, overlap>>

\* ---------------------------------------------------------------- the caller
\* nothing of the call is still running
Finished(c) ==
    /\ c.outSt # "pending"
    /\ c.chk \notin {"probing", "implArgs"}
    /\ c.sgSt # "pending"

\* the caller drops a finished call
Forget(c) ==
    /\ Finished(c)
    /\ calls' = calls (-) SetToBag({c})
    /\ UNCHANGED <<others, phase, returned, ctorError, address, deployed, impl,
                   getAddressCalls, everTrue, overlap>>

\* ---------------------------------------------------------------- specification
Next ==
    \/ ResolveAddress
    \/ ResolveAddressFails
    \/ StartIsDeployed
    \/ StartGetDeployerArgs
    \/ \E op \in SignOps : StartSign(op)
    \/ \E k \in Keys \cup {NoKey} : StartGetNonce(k)
    \/ \E c \in InFlight : ProbeReturns(c)
    \/ \E c \in InFlight : ProbeFails(c)
    \/ \E c \in InFlight : ImplArgsReturns(c)
    \/ \E c \in InFlight : ImplArgsFails(c)
    \/ \E c \in InFlight : ImplSignReturns(c)
    \/ \E c \in InFlight : ImplSignFails(c)
    \/ \E c \in InFlight : ConsumeReturns(c)
    \/ \E c \in InFlight : ConsumeFails(c)
    \/ \E c \in InFlight : NonceReturns(c)
    \/ \E c \in InFlight : NonceFails(c)
    \/ \E c \in InFlight : Forget(c)

Spec == Init /\ [][Next]_vars


\* ---------------------------------------------------------------- properties
BothDefined(a) == a.deployer # Undefined /\ a.deployerData # Undefined
BothUndefined(a) == a.deployer = Undefined /\ a.deployerData = Undefined

\* C1: the deployment cache, once true, is never written back to false, under
\* any interleaving of overlapping deployment checks.
C1_CacheNeverReset == [][deployed => deployed']_vars

\* C2: as long as probes do not overlap, an isDeployed() call started after an
\* isDeployed() call has returned true returns true, whatever the probe would answer.
C2_SequentialMonotone ==
    ~overlap =>
        \A c \in InFlight :
            (c.op = "isDeployed" /\ c.after) => (c.outSt = "ok" /\ c.outBool = "true")

C2_Witness ==
    /\ ~overlap
    /\ \E c \in InFlight : c.op = "isDeployed" /\ c.after /\ c.outBool = "true"

\* C3: a signature operation whose deployment check observed "not deployed" and
\* whose implementation returned deployer args (D, X) outputs wrap(D, X, rawSig),
\* which unwraps to D, X and the raw signature of that same call.
C3_UndeployedWrapped ==
    \A c \in InFlight :
        (c.op = "sign" /\ c.outSt = "ok" /\ c.dep = "false" /\ BothDefined(c.implArgs)) =>
            /\ c.outSig = Wrap(c.implArgs.deployer, c.implArgs.deployerData, c.sig)
            /\ IsWrapped(c.outSig)
            /\ Unwrap(c.outSig) = [address   |-> c.implArgs.deployer,
                                   data      |-> c.implArgs.deployerData,
                                   signature |-> c.sig]

C3_Witness ==
    \E c \in InFlight :
        c.op = "sign" /\ c.outSt = "ok" /\ c.dep = "false" /\ BothDefined(c.implArgs)
            /\ c.sig \in Sigs /\ IsWrapped(c.outSig)

\* C4: a signature operation whose deployment check returned true outputs the
\* raw signature of the implementation, without an ERC-6492 envelope.
C4_DeployedRaw ==
    \A c \in InFlight :
        (c.op = "sign" /\ c.outSt = "ok" /\ c.dep = "true") =>
            (c.outSig = c.sig /\ ~IsWrapped(c.outSig))

C4_Witness ==
    \E c \in InFlight :
        c.op = "sign" /\ c.outSt = "ok" /\ c.dep = "true" /\ c.probes = 1 /\ c.outSig \in Sigs

\* C5: getDeployerArgs() resolves to {undefined, undefined} when its isDeployed()
\* check is true, and otherwise to exactly what the implementation's own
\* getDeployerArgs() resolved to.
C5_DeployerArgsGating ==
    \A c \in InFlight :
        /\ (c.op \in {"getDeployerArgs", "sign"} /\ c.argsSt = "ok") =>
              /\ c.dep = "true" => c.args = NoArgs
              /\ c.dep = "false" => (c.args = c.implArgs /\ c.implArgsN = 1)
        /\ (c.op = "getDeployerArgs" /\ c.outSt = "ok") =>
              (c.argsSt = "ok" /\ c.outArgs = c.args)

C5_Witness ==
    /\ \E c \in InFlight :
          c.op = "getDeployerArgs" /\ c.outSt = "ok" /\ c.dep = "true" /\ c.outArgs = NoArgs
    /\ \E c \in InFlight :
          c.op = "getDeployerArgs" /\ c.outSt = "ok" /\ c.dep = "false" /\ BothDefined(c.outArgs)

\* C6: the result of getDeployerArgs() has deployer and deployerData both
\* defined when isDeployed() is false and both undefined when it is true,
\* never exactly one of the two.
C6_BothOrNeither ==
    \A c \in InFlight :
        (c.op = "getDeployerArgs" /\ c.outSt = "ok") =>
            \/ c.dep = "false" /\ BothDefined(c.outArgs)
            \/ c.dep = "true" /\ BothUndefined(c.outArgs)

\* C7: isDeployed() returns true without a probe when the cache is true; when
\* the cache is false it issues exactly one probe at the resolved address,
\* stores Boolean(code) in the cache and returns that boolean.
C7_MemoizedProbe ==
    \A c \in InFlight :
        c.op = "isDeployed" =>
            /\ c.probes <= 1
            /\ c.outSt = "ok" =>
                IF c.startCache
                THEN c.probes = 0 /\ c.wrote = "none" /\ c.outBool = "true"
                ELSE /\ c.probes = 1
                     /\ c.probeAddr = address
                     /\ c.wrote = BoolStr(ToBoolean(c.code))
                     /\ c.outBool = c.wrote

C7_Witness ==
    /\ \E c \in InFlight :
          c.op = "isDeployed" /\ c.outSt = "ok" /\ c.startCache /\ c.probes = 0
    /\ \E c \in InFlight :
          c.op = "isDeployed" /\ c.outSt = "ok" /\ ~c.startCache /\ c.outBool = "false"

\* C8: implementation.getAddress() is called exactly once, at construction; the
\* address field never changes afterwards, and every probe, nonce-key
\* derivation and nonce lookup uses it.
C8_AddressStable ==
    /\ getAddressCalls <= 1
    /\ returned =>
          /\ getAddressCalls = 1
          /\ address \in Addrs
          /\ \A c \in InFlight :
                /\ c.probes > 0 => c.probeAddr = address
                /\ c.nonceSt = "consuming" => c.keyAddr = address
                /\ c.keyAddr \in {Undefined, address}
                /\ c.nonceSt = "lookup" => c.lookupAddr = address
                /\ c.lookupAddr \in {Undefined, address}

C8_AddressOnce ==
    /\ []C8_AddressStable
    /\ [][address # Undefined => address' = address]_vars

C8_Witness ==
    /\ \E c \in InFlight : c.chk = "probing" /\ c.probeAddr = address
    /\ \E c \in InFlight : c.op = "getNonce" /\ c.keyAddr = address /\ c.lookupAddr = address

\* C9: when implementation.getAddress() fails, the failure reaches the caller
\* of toNativeSmartAccount, no SmartAccount is returned and no operation runs.
C9_ConstructionFailure ==
    phase = "failed" =>
        /\ ~returned
        /\ ctorError = EAddress
        /\ address = Undefined
        /\ calls = EmptyBag

C9_Witness == phase = "failed" /\ ctorError = EAddress /\ getAddressCalls = 1

\* C10 as stated: a signature operation whose signing operation failed with E
\* fails with exactly E, whatever the deployer-args lookup does.
C10_AlwaysSignError ==
    \A c \in InFlight :
        (c.op = "sign" /\ c.sgSt = ESign) => c.outSt = ESign

\* C10 amended: such a call fails and yields no signature; it fails with E
\* unless the deployer-args lookup had failed before, and then with the
\* lookup's error unchanged.
C10_FirstRejectionWins ==
    \A c \in InFlight :
        (c.op = "sign" /\ c.sgSt = ESign) =>
            /\ c.outSt \in Errors
            /\ c.outSig = <<>>
            /\ c.firstFail = "sign" => c.outSt = ESign
            /\ c.firstFail = "args" => (c.argsSt \in {EProbe, EImplArgs} /\ c.outSt = c.argsSt)
            /\ c.firstFail # "none"

C10_Witness ==
    /\ \E c \in InFlight :
          c.op = "sign" /\ c.sgSt = ESign /\ c.firstFail = "sign" /\ c.outSt = ESign
    /\ \E c \in InFlight :
          c.op = "sign" /\ c.sgSt = ESign /\ c.firstFail = "args" /\ c.outSt = EProbe

\* C11: getNonce uses a supplied parameters.key verbatim, key 0 included; the
\* nonce-key source is asked, and its key used, only when no key is supplied.
C11_SuppliedKeyVerbatim ==
    \A c \in InFlight :
        c.op = "getNonce" =>
            /\ c.keyArg # NoKey =>
                  /\ c.key = c.keyArg
                  /\ c.keyAddr = Undefined
                  /\ c.nonceSt # "consuming"
            /\ c.keyArg = NoKey =>
                  /\ c.keyAddr = address
                  /\ c.nonceSt = "consuming" => c.key = NoKey
                  /\ c.outSt = "ok" => c.key \in Keys

C11_Witness ==
    /\ \E c \in InFlight : c.op = "getNonce" /\ c.keyArg = 0 /\ c.key = 0 /\ c.outSt = "ok"
    /\ \E c \in InFlight : c.op = "getNonce" /\ c.keyArg = NoKey /\ c.key = 7 /\ c.outSt = "ok"

\* ================================================================ the call codec
\* encodeCalls / decodeCalls of the Simple implementation
\* (toSimpleNativeSmartAccount, lines 1016-1051), studied on their own.

\* longest batch handed to encodeCalls
MaxBatch == 2

\* an omitted `value`
NoValue == -1
CallTargets == {"0xAA", "0xBB"}
CallDatas == {Undefined, "0x", "0x1234"}
CallValues == {NoValue, 0, 100}
\* Call (types.ts 23-27): data and value are optional
CallInputs == [to : CallTargets, data : CallDatas, value : CallValues]

RECURSIVE SeqsUpTo(_, _)
SeqsUpTo(S, n) ==
    IF n = 0 THEN {<<>>}
    ELSE LET shorter == SeqsUpTo(S, n - 1)
         IN  shorter \cup {Append(q, x) : q \in {r \in shorter : Len(r) = n - 1}, x \in S}

\* the functions of the account ABI (lines 1199-1284) that matter here, by selector
AbiSelectors ==
    [execute      |-> "0xb61d27f6",
     executeBatch |-> "0x47e1da2a",
     initialize   |-> "0xc4d66de8",
     owner        |-> "0x8da5cb5b"]

\* encodeFunctionData({abi, functionName, args}): the selector, then the arguments
EncodeFunctionData(fn, args) == [selector |-> AbiSelectors[fn], args |-> args]

\* decodeFunctionData({abi, data}): the ABI function with the data's selector
\* and its arguments, or a failure when the ABI has no such function
DecodeFunctionData(data) ==
    LET hits == {fn \in DOMAIN AbiSelectors : AbiSelectors[fn] = data.selector}
    IN  IF hits = {}
        THEN [err |-> "AbiFunctionSignatureNotFoundError", functionName |-> "none", args |-> <<>>]
        ELSE [err |-> "none", functionName |-> CHOOSE fn \in hits : TRUE, args |-> data.args]

\* call.value ?? 0n
ValueOrZero(v) == IF v = NoValue THEN 0 ELSE v

\* call.data ?? '0x'
DataOrEmpty(d) == IF d = Undefined THEN "0x" ELSE d

\* variant: every sequence of calls is encoded as a batch
encodeCalls_alwaysBatch(cs) ==
    EncodeFunctionData("executeBatch",
        <<[i \in 1..Len(cs) |-> cs[i].to],
          [i \in 1..Len(cs) |-> ValueOrZero(cs[i].value)],
          [i \in 1..Len(cs) |-> DataOrEmpty(cs[i].data)]>>)

\* variant: a call without value gets no entry in the value array
encodeCalls_sparseValues(cs) ==
    IF Len(cs) = 1
    THEN EncodeFunctionData("execute",
            <<cs[1].to, ValueOrZero(cs[1].value), DataOrEmpty(cs[1].data)>>)
    ELSE EncodeFunctionData("executeBatch",
            <<[i \in 1..Len(cs) |-> cs[i].to],
              IF \E i \in 1..Len(cs) : cs[i].value = NoValue
              THEN <<ValueOrZero(cs[1].value)>>
              ELSE [i \in 1..Len(cs) |-> cs[i].value],
              [i \in 1..Len(cs) |-> DataOrEmpty(cs[i].data)]>>)

\* variant: the batch is built back to front
encodeCalls_reversed(cs) ==
    IF Len(cs) = 1
    THEN EncodeFunctionData("execute",
            <<cs[1].to, ValueOrZero(cs[1].value), DataOrEmpty(cs[1].data)>>)
    ELSE EncodeFunctionData("executeBatch",
            <<[i \in 1..Len(cs) |-> cs[Len(cs) + 1 - i].to],
              [i \in 1..Len(cs) |-> ValueOrZero(cs[Len(cs) + 1 - i].value)],
              [i \in 1..Len(cs) |-> DataOrEmpty(cs[Len(cs) + 1 - i].data)]>>)

\* lines 1035-1051
encodeCalls(cs) ==
    IF Len(cs) = 1
    THEN EncodeFunctionData("execute",
            <<cs[1].to, ValueOrZero(cs[1].value), DataOrEmpty(cs[1].data)>>)
    ELSE EncodeFunctionData("executeBatch",
            <<[i \in 1..Len(cs) |-> cs[i].to],
              [i \in 1..Len(cs) |-> ValueOrZero(cs[i].value)],
              [i \in 1..Len(cs) |-> DataOrEmpty(cs[i].data)]>>)

\* variant: anything that is not a batch is taken for a single call
decodeCalls_fallback(data) ==
    LET r == DecodeFunctionData(data)
    IN  IF r.functionName = "executeBatch"
        THEN [err |-> "none",
              calls |-> [i \in 1..Len(r.args[1]) |->
                            [to |-> r.args[1][i], value |-> r.args[2][i], data |-> r.args[3][i]]]]
        ELSE [err |-> "none",
              calls |-> <<[to |-> data.selector, value |-> 0, data |-> "0x"]>>]

\* lines 1016-1033
decodeCalls(data) ==
    LET r == DecodeFunctionData(data)
    IN  IF r.err # "none"
        THEN [err |-> r.err, calls |-> <<>>]
        ELSE IF r.functionName = "execute"
        THEN [err |-> "none",
              calls |-> <<[to |-> r.args[1], value |-> r.args[2], data |-> r.args[3]]>>]
        ELSE IF r.functionName = "executeBatch"
        THEN [err |-> "none",
              calls |-> [i \in 1..Len(r.args[1]) |->
                            [to |-> r.args[1][i], value |-> r.args[2][i], data |-> r.args[3][i]]]]
        ELSE [err |-> "unable to decode calls for " \o r.functionName, calls |-> <<>>]

\* calldata that encodeCalls does not produce: other functions of the ABI,
\* and a selector the ABI does not know
ForeignCalldata ==
    {[selector |-> AbiSelectors.initialize, args |-> <<t>>] : t \in CallTargets}
        \cup {[selector |-> AbiSelectors.owner, args |-> <<>>]}
        \cup {[selector |-> "0xdeadbeef", args |-> <<t, 0, "0x">>] : t \in CallTargets}

\* no factory call is studied
FactoryIdle ==
    /\ phase = "idle"
    /\ returned = FALSE
    /\ ctorError = Undefined
    /\ address = Undefined
    /\ deployed = FALSE
    /\ impl = [hasSign |-> FALSE, hasGetNonce |-> FALSE]
    /\ getAddressCalls = 0
    /\ calls = EmptyBag
    /\ everTrue = FALSE
    /\ overlap = FALSE

InitCodec ==
    /\ FactoryIdle
    /\ fr = FrIdle
    /\ ct = CtIdle
    /\ sa = SaIdle
    /\ tw = TwIdle
    /\ ob = ObIdle
    /\ \/ \E cs \in SeqsUpTo(CallInputs, MaxBatch) :
             cc = [CcIdle EXCEPT !.pc = "input", !.calls = cs]
       \/ \E d \in ForeignCalldata :
             cc = [CcIdle EXCEPT !.pc = "encoded", !.data = d]

\* account.encodeCalls(calls)
CodecEncode ==
    /\ cc.pc = "input"
    /\ cc' = [cc EXCEPT !.pc = "encoded", !.data = encodeCalls(cc.calls)]
    /\ UNCHANGED <<factoryVars, sa, tw, ob, fr, ct>>

\* account.decodeCalls(data)
CodecDecode ==
    /\ cc.pc = "encoded"
    /\ LET r == decodeCalls(cc.data)
       IN  cc' = [cc EXCEPT !.pc = IF r.err = "none" THEN "decoded" ELSE "failed",
                            !.out = r.calls, !.err = r.err]
    /\ UNCHANGED <<factoryVars, sa, tw, ob, fr, ct>>

\* SimpleAccount_7560.executeBatch, lines 80-85: the require on the array lengths
executeBatchLengths(dest, value, func) ==
    IF Len(dest) = Len(func) /\ (Len(value) = 0 \/ Len(value) = Len(func))
    THEN "ok"
    ELSE "wrong array lengths"

\* the encoded batch reaches the account contract's executeBatch
CodecExecuteBatch ==
    /\ cc.pc = "encoded"
    /\ cc.lengths = "none"
    /\ cc.data.selector = AbiSelectors.executeBatch
    /\ cc' = [cc EXCEPT !.lengths =
                 executeBatchLengths(cc.data.args[1], cc.data.args[2], cc.data.args[3])]
    /\ UNCHANGED <<factoryVars, sa, tw, ob, fr, ct>>

NextCodec == CodecEncode \/ CodecDecode \/ CodecExecuteBatch

SpecCodec == InitCodec /\ [][NextCodec]_vars

\* C12: decodeCalls(encodeCalls(calls)) has the length and order of a non-empty
\* `calls`, with `to` unchanged, `value` the original or 0 when omitted and
\* `data` the original or empty when omitted.
C12_RoundTrip ==
    (cc.pc \in {"decoded", "failed"} /\ Len(cc.calls) >= 1) =>
        /\ cc.pc = "decoded"
        /\ Len(cc.out) = Len(cc.calls)
        /\ \A i \in 1..Len(cc.calls) :
              /\ cc.out[i].to = cc.calls[i].to
              /\ cc.out[i].value = (IF cc.calls[i].value = NoValue THEN 0 ELSE cc.calls[i].value)
              /\ cc.out[i].data = (IF cc.calls[i].data = Undefined THEN "0x" ELSE cc.calls[i].data)

C12_Witness ==
    /\ cc.pc = "decoded"
    /\ Len(cc.calls) = 2
    /\ cc.calls[1].to # cc.calls[2].to
    /\ cc.calls[1].data = Undefined /\ cc.out[1].data = "0x"
    /\ cc.calls[2].value = 100 /\ cc.out[2].value = 100

\* C13: decodeCalls accepts the two dispatch functions of encodeCalls only;
\* calldata with any other selector is a decode error and yields no calls.
C13_OnlyDispatchSelectors ==
    cc.pc \in {"decoded", "failed"} =>
        IF cc.data.selector \in {AbiSelectors.execute, AbiSelectors.executeBatch}
        THEN cc.pc = "decoded"
        ELSE cc.pc = "failed" /\ cc.err # "none" /\ cc.out = <<>>

C13_Witness ==
    /\ cc.pc = "failed"
    /\ cc.data.selector = AbiSelectors.initialize
    /\ cc.err = "unable to decode calls for initialize"

\* ================================================================ the Simple implementation's signing
\* sign / signMessage / signTypedData / signTransaction of toSimpleNativeSmartAccount
\* (lines 1053-1060, 1075-1139, 1158-1193).  Two Simple implementations, each
\* with its own owner, address and client, serve the same request.

Accounts == {1, 2}
ChainIds == {1, 10}
ChainStr == [n \in ChainIds |-> IF n = 1 THEN "1" ELSE "10"]
\* a transaction without chainId
NoChain == -1
Owners == {"0xO1", "0xO2"}
\* parameters.address, when the caller supplies one
SuppliedAddrs == {"0xA9"}
\* deployer.getAddress(owner, nonce), read on chain: fixed by owner and nonce
DeriveAddress(o) == IF o = "0xO1" THEN "0xC1" ELSE "0xC2"
\* raw hashes, messages and typed-data messages handed to the signing operations
SignInputs == {<<"m1">>, <<"m2">>}
OwnerSigs == {<<"ownerSig">>}
EReadContract == "err:readContract"
ENoRawSign == "err:owner does not support raw sign."
EOwnerSign == "err:owner.sign"

SimpleSignOps == {"sign", "signMessage", "signTypedData"}

NoTx == [chainId |-> NoChain, sender |-> Undefined, payload |-> "none"]
\* transactions handed to signTransaction: chainId and sender may be left out
TxInputs == [chainId : ChainIds \cup {NoChain}, sender : {Undefined, "0xEE"}, payload : {"0xcafe"}]

\* hashMessage(message)
HashMessage(m) == <<"eip191(">> \o m \o <<")">>

\* hashTypedData({domain, types, primaryType, message})
HashTypedData(domain, primaryType, message) ==
    <<"eip712(", domain.name, domain.version, ChainStr[domain.chainId],
      domain.verifyingContract, primaryType, "{">> \o message \o <<"})">>

\* serializeTransaction(transaction)
SerializeTransaction(t) == <<"0x05", ChainStr[t.chainId], t.sender, t.payload>>

\* keccak256(bytes)
Keccak256(b) == <<"keccak256(">> \o b \o <<")">>

\* variant: the hash is handed on as it is
toReplaySafeHash_raw(addr, chainId, hash) == hash

\* variant: the account address is left out of the domain
toReplaySafeHash_noAddress(addr, chainId, hash) ==
    HashTypedData([name |-> "Simple Native Smart Wallet", version |-> "1",
                   chainId |-> chainId, verifyingContract |-> "0x0"],
                  "SimpleNativeSmartWalletMessage", hash)

\* lines 1168-1193
toReplaySafeHash(addr, chainId, hash) ==
    HashTypedData([name |-> "Simple Native Smart Wallet", version |-> "1",
                   chainId |-> chainId, verifyingContract |-> addr],
                  "SimpleNativeSmartWalletMessage", hash)

\* the domain of the typed data handed to signTypedData
UserDomain == [name |-> "Mail", version |-> "2", chainId |-> 1, verifyingContract |-> "0xM"]

\* the hash each operation binds: parameters.hash (1081), hashMessage(message)
\* (1096), hashTypedData(parameters) (1112-1117)
InnerHash(req) ==
    IF req.op = "sign" THEN req.input
    ELSE IF req.op = "signMessage" THEN HashMessage(req.input)
    ELSE HashTypedData(UserDomain, "Mail", req.input)

\* variant: a sender supplied by the caller is kept
BindTransaction_callerSender(tx, addr, clientChain) ==
    [chainId |-> IF tx.chainId = NoChain THEN clientChain ELSE tx.chainId,
     sender  |-> IF tx.sender # Undefined THEN tx.sender ELSE addr,
     payload |-> tx.payload]

\* lines 1126-1133: { ...transaction, sender: address, chainId }
BindTransaction(tx, addr, clientChain) ==
    [chainId |-> IF tx.chainId = NoChain THEN clientChain ELSE tx.chainId,
     sender  |-> addr,
     payload |-> tx.payload]

\* the hash handed to sign({hash, owner})
OwnerInput(req, addr, clientChain) ==
    IF req.op = "signTransaction"
    THEN Keccak256(SerializeTransaction(BindTransaction(req.tx, addr, clientChain)))
    ELSE toReplaySafeHash(addr, clientChain, InnerHash(req))

\* variant: without owner.sign the stub signature is handed out
RawSign_stub(ownerSigns) == IF ownerSigns THEN "ask" ELSE "stub"

\* lines 1158-1165: sign({hash, owner})
RawSign(ownerSigns) == IF ownerSigns THEN "ask" ELSE ENoRawSign

\* getStubSignature() (line 1072)
StubSignature == <<"0xfff...1c">>

SimpleConfigs ==
    [owner : Owners, addrParam : SuppliedAddrs \cup {Undefined},
     chainId : ChainIds, ownerSigns : BOOLEAN]

NewSimple(cfg) ==
    [owner      |-> cfg.owner,
     addrParam  |-> cfg.addrParam,
     addrCache  |-> cfg.addrParam,   \* let address = parameters.address (line 1002)
     chainId    |-> cfg.chainId,     \* client.chain.id
     ownerSigns |-> cfg.ownerSigns,  \* owner.sign is there
     pc         |-> "ready",         \* ready, reading, asking, done
     reads      |-> 0,               \* readContract calls
     asked      |-> 0,               \* owner.sign calls
     ownerHash  |-> <<>>,            \* the hash handed to owner.sign
     outSt      |-> "pending",
     outSig     |-> <<>>,
     n          |-> 0,               \* operations called on this implementation
     hit        |-> FALSE,           \* the running call found `address` set
     readNow    |-> 0,               \* readContract calls of the running call
     outAddr    |-> Undefined]       \* getAddress()

\* operations called on one implementation, one after the other
MaxSimpleCalls == 2

SignRequests ==
    {[op |-> o, input |-> m, tx |-> NoTx] : o \in SimpleSignOps, m \in SignInputs}
        \cup {[op |-> "signTransaction", input |-> <<>>, tx |-> t] : t \in TxInputs}
        \cup {[op |-> "getAddress", input |-> <<>>, tx |-> NoTx]}

InitSimple ==
    /\ FactoryIdle
    /\ fr = FrIdle
    /\ ct = CtIdle
    /\ cc = CcIdle
    /\ tw = TwIdle
    /\ ob = ObIdle
    /\ \E r \in SignRequests, c1 \in SimpleConfigs, c2 \in SimpleConfigs :
          sa = [pc |-> "run", req |-> r, acct |-> <<NewSimple(c1), NewSimple(c2)>>]

\* the operation once `await this.getAddress()` has given addr: hash, then
\* sign({hash, owner})
AskOwner(a, addr) ==
    LET h == OwnerInput(sa.req, addr, a.chainId)
        o == RawSign(a.ownerSigns)
    IN  IF o = "ask"
        THEN [a EXCEPT !.pc = "asking", !.asked = @ + 1, !.ownerHash = h]
        ELSE IF o = "stub"
        THEN [a EXCEPT !.pc = "done", !.outSt = "ok", !.outSig = StubSignature]
        ELSE [a EXCEPT !.pc = "done", !.outSt = o]

\* what follows `await this.getAddress()`: getAddress itself returns the
\* address, a signing operation goes on to the owner
AfterAddress(a, addr) ==
    IF sa.req.op = "getAddress"
    THEN [a EXCEPT !.pc = "done", !.outSt = "ok", !.outAddr = addr]
    ELSE AskOwner(a, addr)

\* variant: the closure is not consulted, every call reads
AddressCached_never(cache) == FALSE

\* line 1054: address ??= ... evaluates the right-hand side only when
\* `address` is null or undefined
AddressCached(cache) == cache # Undefined

\* the operation is called, for the first time or after the one before has
\* ended; getAddress() (lines 1053-1060) answers from the closure or starts
\* the read
SimpleStart(i) ==
    /\ sa.pc = "run"
    /\ \/ sa.acct[i].pc = "ready"
       \/ sa.acct[i].pc = "done" /\ sa.acct[i].n < MaxSimpleCalls
    /\ LET a == [sa.acct[i] EXCEPT !.n = @ + 1, !.asked = 0, !.ownerHash = <<>>,
                                   !.outSt = "pending", !.outSig = <<>>,
                                   !.outAddr = Undefined, !.readNow = 0,
                                   !.hit = AddressCached(sa.acct[i].addrCache)]
       IN  sa' = [sa EXCEPT !.acct[i] =
                    IF a.hit
                    THEN AfterAddress(a, a.addrCache)
                    ELSE [a EXCEPT !.pc = "reading", !.reads = @ + 1, !.readNow = @ + 1]]
    /\ UNCHANGED <<factoryVars, cc, tw, ob, fr, ct>>

\* address ??= await readContract(...): the read answers
SimpleReadReturns(i) ==
    /\ sa.pc = "run"
    /\ sa.acct[i].pc = "reading"
    /\ LET d == DeriveAddress(sa.acct[i].owner)
           a == [sa.acct[i] EXCEPT !.addrCache = d]
       IN  sa' = [sa EXCEPT !.acct[i] = AfterAddress(a, d)]
    /\ UNCHANGED <<factoryVars, cc, tw, ob, fr, ct>>

SimpleReadFails(i) ==
    /\ sa.pc = "run"
    /\ sa.acct[i].pc = "reading"
    /\ sa' = [sa EXCEPT !.acct[i].pc = "done", !.acct[i].outSt = EReadContract]
    /\ UNCHANGED <<factoryVars, cc, tw, ob, fr, ct>>

\* owner.sign({hash}) answers
SimpleOwnerReturns(i) ==
    /\ sa.pc = "run"
    /\ sa.acct[i].pc = "asking"
    /\ \E s \in OwnerSigs :
          sa' = [sa EXCEPT !.acct[i].pc = "done", !.acct[i].outSt = "ok", !.acct[i].outSig = s]
    /\ UNCHANGED <<factoryVars, cc, tw, ob, fr, ct>>

SimpleOwnerFails(i) ==
    /\ sa.pc = "run"
    /\ sa.acct[i].pc = "asking"
    /\ sa' = [sa EXCEPT !.acct[i].pc = "done", !.acct[i].outSt = EOwnerSign]
    /\ UNCHANGED <<factoryVars, cc, tw, ob, fr, ct>>

NextSimple ==
    \/ \E i \in Accounts : SimpleStart(i)
    \/ \E i \in Accounts : SimpleReadReturns(i)
    \/ \E i \in Accounts : SimpleReadFails(i)
    \/ \E i \in Accounts : SimpleOwnerReturns(i)
    \/ \E i \in Accounts : SimpleOwnerFails(i)

SpecSimple == InitSimple /\ [][NextSimple]_vars

\* the address of a Simple account: the supplied one, else the derived one
AccountAddress(a) == IF a.addrParam # Undefined THEN a.addrParam ELSE DeriveAddress(a.owner)

\* ---------------------------------------------------------------- C14
\* C14: in sign, signMessage and signTypedData of the Simple implementation
\* the hash handed to owner.sign is the replay-safe hash of the operation's
\* hash under the domain {name 'Simple Native Smart Wallet', version '1',
\* chainId of the client, verifyingContract = the account address}; it is
\* never the operation's hash itself.
C14_OwnerGetsReplaySafeHash ==
    sa.pc = "run" /\ sa.req.op \in SimpleSignOps =>
        \A i \in Accounts :
            LET a == sa.acct[i]
            IN  a.asked > 0 =>
                  /\ a.asked = 1
                  /\ a.ownerHash =
                       HashTypedData([name |-> "Simple Native Smart Wallet", version |-> "1",
                                      chainId |-> a.chainId,
                                      verifyingContract |-> AccountAddress(a)],
                                     "SimpleNativeSmartWalletMessage", InnerHash(sa.req))
                  /\ a.ownerHash # InnerHash(sa.req)

C14_Witness ==
    /\ sa.pc = "run"
    /\ sa.req.op = "signMessage"
    /\ sa.acct[1].asked = 1
    /\ sa.acct[1].outSt = "ok"
    /\ sa.acct[1].addrParam = Undefined
    /\ sa.acct[1].ownerHash[1] = "eip712("

\* ---------------------------------------------------------------- C15
\* C15: for the same message, two Simple accounts with different addresses on
\* the same chain hand different hashes to their owners, and so do two
\* accounts with the same address on different chains.
C15_DomainBinding ==
    sa.pc = "run" /\ sa.req.op \in SimpleSignOps
                  /\ sa.acct[1].asked = 1 /\ sa.acct[2].asked = 1 =>
        LET a == sa.acct[1]
            b == sa.acct[2]
        IN  /\ (AccountAddress(a) # AccountAddress(b) /\ a.chainId = b.chainId
                    => a.ownerHash # b.ownerHash)
            /\ (AccountAddress(a) = AccountAddress(b) /\ a.chainId # b.chainId
                    => a.ownerHash # b.ownerHash)

C15_Witness ==
    /\ sa.pc = "run"
    /\ sa.req.op = "sign"
    /\ sa.acct[1].asked = 1 /\ sa.acct[2].asked = 1
    /\ AccountAddress(sa.acct[1]) # AccountAddress(sa.acct[2])
    /\ sa.acct[1].chainId = sa.acct[2].chainId
    /\ sa.acct[1].ownerHash # sa.acct[2].ownerHash

\* same address, two chains
C15_WitnessChains ==
    /\ sa.pc = "run"
    /\ sa.req.op = "sign"
    /\ sa.acct[1].asked = 1 /\ sa.acct[2].asked = 1
    /\ AccountAddress(sa.acct[1]) = AccountAddress(sa.acct[2])
    /\ sa.acct[1].chainId # sa.acct[2].chainId
    /\ sa.acct[1].ownerHash # sa.acct[2].ownerHash

\* ---------------------------------------------------------------- C16
\* C16: signTransaction of the Simple implementation hands the owner
\* keccak256(serialize(tx')), where tx' is the caller's transaction with sender
\* set to the account address, whatever sender the caller gave, and chainId the
\* caller's or, when left out, the client's chain; the hash is not wrapped in
\* the replay-safe structure.
C16_SignTransactionHash ==
    sa.pc = "run" /\ sa.req.op = "signTransaction" =>
        \A i \in Accounts :
            LET a  == sa.acct[i]
                tx == sa.req.tx
                bound == [chainId |-> IF tx.chainId = NoChain THEN a.chainId ELSE tx.chainId,
                          sender  |-> AccountAddress(a),
                          payload |-> tx.payload]
            IN  a.asked > 0 =>
                  /\ a.ownerHash = Keccak256(SerializeTransaction(bound))
                  /\ a.ownerHash # toReplaySafeHash(AccountAddress(a), a.chainId,
                                                    Keccak256(SerializeTransaction(bound)))
                  /\ a.ownerHash[1] # "eip712("

C16_Witness ==
    /\ sa.pc = "run"
    /\ sa.req.op = "signTransaction"
    /\ sa.req.tx.sender = "0xEE"
    /\ sa.req.tx.chainId = NoChain
    /\ sa.acct[1].asked = 1
    /\ sa.acct[1].outSt = "ok"
    /\ sa.acct[1].chainId = 10
    /\ sa.acct[1].ownerHash = <<"keccak256(", "0x05", "10", AccountAddress(sa.acct[1]), "0xcafe", ")">>

\* ---------------------------------------------------------------- C17
\* C17: when the owner has no raw-hash signing, every signing operation of the
\* Simple implementation ends in an error, the owner is never asked and no
\* signature value is returned; once the address is known the error is the
\* explicit 'owner does not support raw sign'.
C17_NoRawSignFails ==
    sa.pc = "run" /\ sa.req.op # "getAddress" =>
        \A i \in Accounts :
            LET a == sa.acct[i]
            IN  ~a.ownerSigns =>
                  /\ a.asked = 0
                  /\ a.outSig = <<>>
                  /\ a.outSt # "ok"
                  /\ (a.pc = "done" => a.outSt \in {ENoRawSign, EReadContract})
                  /\ (a.pc = "done" /\ a.addrCache # Undefined => a.outSt = ENoRawSign)

C17_Witness ==
    /\ sa.pc = "run"
    /\ sa.req.op = "signTransaction"
    /\ ~sa.acct[2].ownerSigns
    /\ sa.acct[2].pc = "done"
    /\ sa.acct[2].reads = 1
    /\ sa.acct[2].outSt = ENoRawSign

\* ================================================================ two SmartAccount instances
\* Two calls of toNativeSmartAccount (lines 1473-1573), each with its own
\* `let deployed` (1479) and `const address` (1481).

Instances == {1, 2}
\* isDeployed() calls in flight per instance
MaxProbes == 2

\* variant: one `deployed` for every instance
CacheSlot_shared(i) == 1

\* line 1479: `let deployed` is declared inside toNativeSmartAccount, so each
\* call of the factory has its own
CacheSlot(i) == i

NewInstance ==
    [phase    |-> "constructing",
     address  |-> Undefined,
     inflight |-> 0,          \* isDeployed() calls waiting for getCode
     last     |-> "none"]     \* the last isDeployed() result

\* the instance's `deployed`
DeployedOf(t, i) == t.slots[CacheSlot(i)]

InitTwo ==
    /\ FactoryIdle
    /\ fr = FrIdle
    /\ ct = CtIdle
    /\ cc = CcIdle
    /\ sa = SaIdle
    /\ ob = ObIdle
    /\ tw = [pc |-> "run", actor |-> 0, slots |-> <<FALSE, FALSE>>,
             inst |-> <<NewInstance, NewInstance>>]

\* line 1481: const address = await implementation.getAddress()
TwoResolve(i) ==
    /\ tw.pc = "run"
    /\ tw.inst[i].phase = "constructing"
    /\ \E a \in LaterAddrs :
          tw' = [tw EXCEPT !.actor = i, !.inst[i].phase = "ready", !.inst[i].address = a]
    /\ UNCHANGED <<factoryVars, cc, sa, ob, fr, ct>>

\* lines 1516-1518: isDeployed() is called; a cache hit returns true at once
TwoStartIsDeployed(i) ==
    /\ tw.pc = "run"
    /\ tw.inst[i].phase = "ready"
    /\ IF isDeployedHit(DeployedOf(tw, i))
       THEN tw' = [tw EXCEPT !.actor = i, !.inst[i].last = "true"]
       ELSE /\ tw.inst[i].inflight < MaxProbes
            /\ tw' = [tw EXCEPT !.actor = i, !.inst[i].inflight = @ + 1]
    /\ UNCHANGED <<factoryVars, cc, sa, ob, fr, ct>>

\* lines 1519-1526: getCode answers; deployed = Boolean(code)
TwoProbeReturns(i) ==
    /\ tw.pc = "run"
    /\ tw.inst[i].inflight > 0
    /\ \E code \in CodeValues :
          LET d == CacheAfterProbe(DeployedOf(tw, i), code)
          IN  tw' = [tw EXCEPT !.actor = i,
                               !.slots[CacheSlot(i)] = d,
                               !.inst[i].inflight = @ - 1,
                               !.inst[i].last = BoolStr(d)]
    /\ UNCHANGED <<factoryVars, cc, sa, ob, fr, ct>>

\* getCode rejects
TwoProbeFails(i) ==
    /\ tw.pc = "run"
    /\ tw.inst[i].inflight > 0
    /\ tw' = [tw EXCEPT !.actor = i, !.inst[i].inflight = @ - 1, !.inst[i].last = EProbe]
    /\ UNCHANGED <<factoryVars, cc, sa, ob, fr, ct>>

NextTwo ==
    \/ \E i \in Instances : TwoResolve(i)
    \/ \E i \in Instances : TwoStartIsDeployed(i)
    \/ \E i \in Instances : TwoProbeReturns(i)
    \/ \E i \in Instances : TwoProbeFails(i)

SpecTwo == InitTwo /\ [][NextTwo]_vars

\* ---------------------------------------------------------------- C18
\* C18: a step of one SmartAccount instance (its construction, an isDeployed()
\* call, a getCode answer or failure) never changes the deployment cache or the
\* resolved address of the other instance, in any interleaving.
C18_InstancesIsolated ==
    [][\A i \in Instances : \A j \in Instances \ {i} :
          tw.pc = "run" /\ tw'.actor = i =>
              /\ DeployedOf(tw', j) = DeployedOf(tw, j)
              /\ tw'.inst[j].address = tw.inst[j].address]_vars

\* same address, one instance has cached true, the other has since probed and
\* seen no code
C18_Witness ==
    /\ tw.pc = "run"
    /\ tw.inst[1].address = tw.inst[2].address
    /\ tw.inst[1].address # Undefined
    /\ DeployedOf(tw, 1)
    /\ tw.inst[1].last = "true"
    /\ tw.actor = 2
    /\ tw.inst[2].last = "false"
    /\ ~DeployedOf(tw, 2)

\* ================================================================ the returned object
\* The object literal returned by toNativeSmartAccount (lines 1483-1572):
\* { ...extend, ...rest, address, getDeployerArgs, getNonce, isDeployed,
\*   ...(implementation.sign ? { sign } : {}), signMessage, signTypedData, type }

Absent == "absent"
\* the fields the factory writes
FactoryKeys == {"address", "getDeployerArgs", "getNonce", "isDeployed",
                "signMessage", "signTypedData", "type"}
ObjectKeys == FactoryKeys \cup {"sign", "encodeCalls"}
\* the fields NativeSmartAccountImplementation requires (lines 29-199)
RequiredImplKeys == {"getDeployerArgs", "signMessage", "signTypedData", "encodeCalls"}

EmptyObject == [k \in ObjectKeys |-> Absent]
\* the value of field k as written by origin: extend, implementation or factory
FieldFrom(origin, k) ==
    IF origin = "factory" /\ k = "type" THEN "native-smart" ELSE origin \o "." \o k

\* an object holding the fields ks, all written by origin
ObjectOf(ks, origin) ==
    [k \in ObjectKeys |-> IF k \in ks THEN FieldFrom(origin, k) ELSE Absent]

\* { ...target, ...source }: the fields of source overwrite those of target
Spread(target, source) ==
    [k \in ObjectKeys |-> IF source[k] # Absent THEN source[k] ELSE target[k]]

\* the fields the literal writes after the two spreads (lines 1486-1571)
FactoryFields(rest) ==
    ObjectOf(FactoryKeys \cup (IF rest["sign"] # Absent THEN {"sign"} ELSE {}), "factory")

\* variant: the implementation's fields are spread last
ReturnedObject_restLast(extend, rest) ==
    Spread(Spread(Spread(EmptyObject, extend), FactoryFields(rest)), rest)

\* lines 1483-1572
ReturnedObject(extend, rest) ==
    Spread(Spread(Spread(EmptyObject, extend), rest), FactoryFields(rest))

InitObject ==
    /\ FactoryIdle
    /\ fr = FrIdle
    /\ ct = CtIdle
    /\ cc = CcIdle
    /\ sa = SaIdle
    /\ tw = TwIdle
    /\ \E ek \in SUBSET ObjectKeys, rk \in SUBSET (ObjectKeys \ RequiredImplKeys) :
          ob = [pc     |-> "input",
                extend |-> ObjectOf(ek, "extend"),
                rest   |-> ObjectOf(rk \cup RequiredImplKeys, "implementation"),
                obj    |-> EmptyObject]

\* toNativeSmartAccount returns
ObjectReturn ==
    /\ ob.pc = "input"
    /\ ob' = [ob EXCEPT !.pc = "returned", !.obj = ReturnedObject(ob.extend, ob.rest)]
    /\ UNCHANGED <<factoryVars, cc, sa, tw, fr, ct>>

NextObject == ObjectReturn

SpecObject == InitObject /\ [][NextObject]_vars

\* ---------------------------------------------------------------- C19
\* C19: the returned SmartAccount has type 'native-smart', and its address,
\* isDeployed, getNonce, getDeployerArgs, signMessage and signTypedData are the
\* factory's own, whatever same-named fields the implementation or its extend
\* record carry.
C19_FactoryFieldsWin ==
    ob.pc = "returned" =>
        /\ ob.obj["type"] = "native-smart"
        /\ \A k \in {"address", "isDeployed", "getNonce", "getDeployerArgs",
                     "signMessage", "signTypedData"} : ob.obj[k] = "factory." \o k

C19_Witness ==
    /\ ob.pc = "returned"
    /\ ob.extend["type"] = "extend.type"
    /\ ob.extend["address"] = "extend.address"
    /\ ob.rest["type"] = "implementation.type"
    /\ ob.rest["isDeployed"] = "implementation.isDeployed"
    /\ ob.rest["getNonce"] = "implementation.getNonce"
    /\ ob.obj["type"] = "native-smart"
    /\ ob.obj["encodeCalls"] = "implementation.encodeCalls"

\* ---------------------------------------------------------------- C20
\* C20 as stated: getDeployerArgs(), sign, signMessage and signTypedData never
\* change the deployment cache; none of them moves it from false to true.
C20_NeverWritesCache ==
    \A c \in InFlight :
        c.op \in {"getDeployerArgs", "sign"} => c.wrote # "true"

\* C20, amended: getDeployerArgs(), sign, signMessage and signTypedData touch
\* the deployment cache only through the isDeployed() check they run first.
\* Begun with the cache true they probe nothing and write nothing; begun with
\* the cache false they issue one probe and, on its answer, store
\* Boolean(code), which moves the instance to Deployed when code is there.
\* The cache changes at no other step.
C20_CheckedState ==
    \A c \in InFlight :
        c.op \in {"getDeployerArgs", "sign"} =>
            /\ c.probes <= 1
            /\ c.dep # "none" /\ c.startCache => c.probes = 0 /\ c.wrote = "none"
            /\ c.dep # "none" /\ ~c.startCache /\ c.dep # EProbe =>
                  /\ c.probes = 1
                  /\ c.wrote = BoolStr(ToBoolean(c.code))
                  /\ c.dep = c.wrote
            /\ c.wrote # "none" => c.dep = c.wrote /\ ~c.startCache

C20_WritesOnlyThroughCheck ==
    /\ []C20_CheckedState
    /\ [][deployed' # deployed =>
            \E c \in BagToSet(calls') :
                /\ c.dep = c.wrote
                /\ ~c.startCache
                /\ c.wrote = BoolStr(deployed')
                /\ c.wrote = BoolStr(ToBoolean(c.code))]_vars

\* a getDeployerArgs() or signing call begun with the cache false has stored
\* true
C20_Witness ==
    /\ deployed
    /\ \E c \in InFlight :
          /\ c.op \in {"getDeployerArgs", "sign"}
          /\ ~c.startCache
          /\ c.probes = 1
          /\ c.wrote = "true"
    /\ \A c \in InFlight : c.op # "isDeployed"

\* ---------------------------------------------------------------- C21
\* C21: once an isDeployed() call has returned true, no signature operation
\* started afterwards returns an ERC-6492-wrapped signature and every
\* getDeployerArgs() started afterwards returns {undefined, undefined}, in any
\* interleaving with probes still in flight.
C21_DeployedIsAbsorbing ==
    \A c \in InFlight :
        c.after /\ c.outSt = "ok" =>
            /\ c.op = "sign" => ~IsWrapped(c.outSig)
            /\ c.op = "getDeployerArgs" => BothUndefined(c.outArgs)

\* ---------------------------------------------------------------- C22
\* C22: a signature operation has both its deployer-args lookup and the
\* implementation's signing call under way from the moment it is called,
\* neither waiting for the other; it returns a signature only when both have
\* completed successfully, and the signature is made from both results.
C22_FanOutFanIn ==
    \A c \in InFlight :
        c.op = "sign" =>
            /\ c.argsSt # "none"
            /\ c.sgSt # "none"
            /\ c.outSt = "ok" =>
                  /\ c.argsSt = "ok"
                  /\ c.sgSt = "ok"
                  /\ c.outSig = SignOutput(c.args, c.sig)
            /\ c.outSt # "ok" => c.outSig = <<>>

\* one call has its signature while its deployer args are still awaited, the
\* other has its deployer args while its signature is still awaited
C22_Witness ==
    /\ \E c \in InFlight :
          c.op = "sign" /\ c.sgSt = "ok" /\ c.argsSt = "pending" /\ c.outSt = "pending"
    /\ \E c \in InFlight :
          c.op = "sign" /\ c.argsSt = "ok" /\ c.sgSt = "pending" /\ c.outSt = "pending"
                        /\ c.probes = 1

\* a signature operation has returned with both parts complete
C22_WitnessReturned ==
    \E c \in InFlight :
        c.op = "sign" /\ c.outSt = "ok" /\ c.argsSt = "ok" /\ c.sgSt = "ok" /\ c.probes = 1

\* ---------------------------------------------------------------- C23
\* C23: when the isDeployed() check made inside getDeployerArgs() is true, the
\* implementation's own getDeployerArgs() is not invoked for that call, also
\* when the call comes from a signature operation.
C23_ShortCircuit ==
    \A c \in InFlight :
        c.op \in {"getDeployerArgs", "sign"} /\ c.dep = "true" =>
            /\ c.implArgsN = 0
            /\ c.chk = "done"
            /\ c.implArgs = NoArgs

\* a signature operation whose probe found code, and a getDeployerArgs() call
\* answered from the cache
C23_Witness ==
    /\ \E c \in InFlight :
          c.op = "sign" /\ c.dep = "true" /\ c.probes = 1 /\ c.argsSt = "ok"
    /\ \E c \in InFlight :
          c.op = "getDeployerArgs" /\ c.dep = "true" /\ c.probes = 0 /\ c.outSt = "ok"

\* ================================================================ a SmartAccount over the Simple implementation
\* toSimpleNativeSmartAccount hands its implementation to toNativeSmartAccount
\* (line 1010).  The SmartAccount's own isDeployed() and getNonce() run as in
\* Spec; encodeCalls, decodeCalls, getAddress, getStubSignature and
\* signTransaction reach the caller through `...rest` (line 1485) and are the
\* implementation's functions, as is the implementation's own getDeployerArgs()
\* that the factory calls at line 1490.

PassThroughOps == {"encodeCalls", "decodeCalls", "getAddress", "getStubSignature",
                   "signTransaction", "implementation.getDeployerArgs"}

\* parameters.nonce of toSimpleNativeSmartAccount (line 1000, default 0n)
SimpleNonces == {0, 3}
\* deployer.address (line 1008)
SimpleDeployerAddress == "0x0ba5ed0c6aa8c49038f819e587e2633c4a9f428a"

\* encodeFunctionData({abi: deployer.abi, functionName, args})
EncodeDeployerData(fn, args) == [fn |-> fn, args |-> args]

\* variant: the nonce is left at its default
SimpleGetDeployerArgs_defaultNonce(owner, nonce) ==
    [deployer     |-> SimpleDeployerAddress,
     deployerData |-> EncodeDeployerData("createAccount", <<owner, 0>>)]

\* lines 1062-1069
SimpleGetDeployerArgs(owner, nonce) ==
    [deployer     |-> SimpleDeployerAddress,
     deployerData |-> EncodeDeployerData("createAccount", <<owner, nonce>>)]

NoSimpleArgs == [deployer |-> Undefined, deployerData |-> EncodeDeployerData("none", <<>>)]

\* variant: a call through the SmartAccount marks it deployed
CacheAfterCall_marksDeployed(op, d) == TRUE

\* `deployed` (line 1479) is local to toNativeSmartAccount; the functions of
\* the implementation are written outside it and hold no reference to it
CacheAfterCall(op, d) == d

\* the calls handed to encodeCalls, and encoded for decodeCalls
FrameCalls ==
    {<<[to |-> "0xAA", data |-> "0x1234", value |-> 100]>>,
     <<[to |-> "0xAA", data |-> Undefined, value |-> NoValue],
       [to |-> "0xBB", data |-> "0x", value |-> 0]>>}

FrameTxs == {[chainId |-> NoChain, sender |-> "0xEE", payload |-> "0xcafe"]}

NewFrame(o, n) ==
    [pc      |-> "run",
     owner   |-> o,              \* owner.address
     nonce   |-> n,              \* parameters.nonce
     chainId |-> 1,              \* client.chain.id
     op      |-> "none",         \* the last implementation function called
     st      |-> "none",         \* none, asking, ok, or the error it rejected with
     hash    |-> <<>>,           \* signTransaction: what owner.sign was handed
     outData |-> NoCalldata,     \* encodeCalls
     outCalls |-> <<>>,          \* decodeCalls
     outStr  |-> Undefined,      \* getAddress
     outSig  |-> <<>>,           \* getStubSignature, signTransaction
     outArgs |-> NoSimpleArgs]   \* implementation.getDeployerArgs

InitFrame ==
    /\ phase = "constructing"
    /\ returned = FALSE
    /\ ctorError = Undefined
    /\ address = Undefined
    /\ deployed = FALSE
    /\ impl = [hasSign |-> TRUE, hasGetNonce |-> FALSE]
    /\ getAddressCalls = 0
    /\ calls = EmptyBag
    /\ everTrue = FALSE
    /\ overlap = FALSE
    /\ cc = CcIdle
    /\ sa = SaIdle
    /\ tw = TwIdle
    /\ ob = ObIdle
    /\ ct = CtIdle
    /\ \E n \in SimpleNonces : fr = NewFrame("0xO1", n)

\* the outcome of a function of the implementation that needs no collaborator
FrameResult(f, op, cs) ==
    LET g == [f EXCEPT !.op = op, !.st = "ok", !.hash = <<>>, !.outData = NoCalldata,
                       !.outCalls = <<>>, !.outStr = Undefined, !.outSig = <<>>,
                       !.outArgs = NoSimpleArgs]
    IN  IF op = "encodeCalls" THEN [g EXCEPT !.outData = encodeCalls(cs)]
        ELSE IF op = "decodeCalls"
        THEN LET r == decodeCalls(encodeCalls(cs))
             IN  [g EXCEPT !.st = IF r.err = "none" THEN "ok" ELSE r.err, !.outCalls = r.calls]
        ELSE IF op = "getAddress" THEN [g EXCEPT !.outStr = address]
        ELSE IF op = "getStubSignature" THEN [g EXCEPT !.outSig = StubSignature]
        ELSE IF op = "implementation.getDeployerArgs"
        THEN [g EXCEPT !.outArgs = SimpleGetDeployerArgs(f.owner, f.nonce)]
        ELSE g

\* one of encodeCalls, decodeCalls, getAddress, getStubSignature or the
\* implementation's getDeployerArgs is called on the SmartAccount
FrameCall(op) ==
    /\ returned
    /\ fr.pc = "run"
    /\ fr.st # "asking"
    /\ op # "signTransaction"
    /\ \E cs \in FrameCalls : fr' = FrameResult(fr, op, cs)
    /\ deployed' = CacheAfterCall(op, deployed)
    /\ UNCHANGED <<phase, returned, ctorError, address, impl, getAddressCalls,
                   calls, everTrue, overlap, cc, sa, tw, ob, ct>>

\* signTransaction (lines 1125-1139) is called on the SmartAccount
FrameSignTransaction ==
    /\ returned
    /\ fr.pc = "run"
    /\ fr.st # "asking"
    /\ \E tx \in FrameTxs :
          LET g == FrameResult(fr, "signTransaction", <<>>)
              r == [op |-> "signTransaction", input |-> <<>>, tx |-> tx]
          IN  fr' = [g EXCEPT !.st = "asking", !.hash = OwnerInput(r, address, fr.chainId)]
    /\ deployed' = CacheAfterCall("signTransaction", deployed)
    /\ UNCHANGED <<phase, returned, ctorError, address, impl, getAddressCalls,
                   calls, everTrue, overlap, cc, sa, tw, ob, ct>>

\* owner.sign({hash}) answers or rejects
FrameOwnerReturns ==
    /\ fr.pc = "run"
    /\ fr.st = "asking"
    /\ \E s \in OwnerSigs : fr' = [fr EXCEPT !.st = "ok", !.outSig = s]
    /\ deployed' = CacheAfterCall("signTransaction", deployed)
    /\ UNCHANGED <<phase, returned, ctorError, address, impl, getAddressCalls,
                   calls, everTrue, overlap, cc, sa, tw, ob, ct>>

FrameOwnerFails ==
    /\ fr.pc = "run"
    /\ fr.st = "asking"
    /\ fr' = [fr EXCEPT !.st = EOwnerSign]
    /\ deployed' = CacheAfterCall("signTransaction", deployed)
    /\ UNCHANGED <<phase, returned, ctorError, address, impl, getAddressCalls,
                   calls, everTrue, overlap, cc, sa, tw, ob, ct>>

NextFrame ==
    \/ ResolveAddress
    \/ StartIsDeployed
    \/ \E k \in Keys \cup {NoKey} : StartGetNonce(k)
    \/ \E c \in InFlight : ProbeReturns(c)
    \/ \E c \in InFlight : ProbeFails(c)
    \/ \E c \in InFlight : ConsumeReturns(c)
    \/ \E c \in InFlight : ConsumeFails(c)
    \/ \E c \in InFlight : NonceReturns(c)
    \/ \E c \in InFlight : NonceFails(c)
    \/ \E c \in InFlight : Forget(c)
    \/ \E op \in PassThroughOps : FrameCall(op)
    \/ FrameSignTransaction
    \/ FrameOwnerReturns
    \/ FrameOwnerFails

SpecFrame == InitFrame /\ [][NextFrame]_vars

\* ---------------------------------------------------------------- C24
\* C24: the deployment cache is written only inside isDeployed().  A step of
\* encodeCalls, decodeCalls, getAddress, getStubSignature or signTransaction
\* leaves the cache (and the resolved address) unchanged whatever the cache
\* holds, so does every step of getNonce, and getNonce never probes; the cache
\* changes only when the probe of an isDeployed() call answers.
C24_NonceNeverProbes ==
    \A c \in InFlight :
        c.op = "getNonce" => c.wrote = "none" /\ c.probes = 0 /\ c.chk = "none"

C24_WitnessNotDeployed ==
    /\ returned
    /\ ~deployed
    /\ fr.pc = "run"
    /\ fr.op = "encodeCalls"
    /\ fr.outData.selector = AbiSelectors.executeBatch

\* ---------------------------------------------------------------- C25
\* C25: once the key is fixed, getNonce hands it to the implementation's own
\* getNonce when the implementation has one, and then makes no default lookup;
\* otherwise it makes the default lookup keyed by (resolved address, key) and
\* returns what the lookup answers.
C25_NonceDelegation ==
    \A c \in InFlight :
        c.op = "getNonce" =>
            /\ c.nonceSt = "consuming" => c.key = NoKey /\ c.lookupAddr = Undefined
            /\ c.nonceSt \in {"implNonce", "lookup"} =>
                  /\ c.key \in Keys
                  /\ c.keyArg # NoKey => c.key = c.keyArg
                  /\ c.nonceSt = "implNonce" <=> impl.hasGetNonce
            /\ impl.hasGetNonce => c.lookupAddr = Undefined
            /\ ~impl.hasGetNonce /\ c.key # NoKey => c.lookupAddr = address
            /\ c.outSt = "ok" => c.key \in Keys /\ c.outNonce \in Nonces

\* a derived key has gone to the implementation's getNonce, which has answered
C25_Witness ==
    /\ impl.hasGetNonce
    /\ \E c \in InFlight :
          c.op = "getNonce" /\ c.keyArg = NoKey /\ c.key = 7 /\ c.outSt = "ok"
                            /\ c.lookupAddr = Undefined

\* the default lookup has answered for a supplied key
C25_WitnessDefault ==
    /\ ~impl.hasGetNonce
    /\ \E c \in InFlight :
          c.op = "getNonce" /\ c.keyArg = 7 /\ c.key = 7 /\ c.outSt = "ok"
                            /\ c.lookupAddr = address

\* ---------------------------------------------------------------- C26
\* C26: encodeCalls of the Simple implementation encodes a sequence of exactly
\* one call as execute(to, value, data) and a sequence of more than one call as
\* executeBatch, whose arrays list the calls in their order.
C26_SingleOrBatch ==
    cc.pc \in {"encoded", "decoded", "failed"} /\ Len(cc.calls) >= 1 =>
        LET cs == cc.calls
        IN  /\ Len(cs) = 1 =>
                  /\ cc.data.selector = AbiSelectors.execute
                  /\ cc.data.args = <<cs[1].to, ValueOrZero(cs[1].value), DataOrEmpty(cs[1].data)>>
            /\ Len(cs) > 1 =>
                  /\ cc.data.selector = AbiSelectors.executeBatch
                  /\ Len(cc.data.args) = 3
                  /\ \A k \in 1..3 : Len(cc.data.args[k]) = Len(cs)
                  /\ \A i \in 1..Len(cs) :
                        /\ cc.data.args[1][i] = cs[i].to
                        /\ cc.data.args[2][i] = ValueOrZero(cs[i].value)
                        /\ cc.data.args[3][i] = DataOrEmpty(cs[i].data)

\* one call has been encoded as execute
C26_Witness ==
    /\ cc.pc = "encoded"
    /\ Len(cc.calls) = 1
    /\ cc.calls[1].value = NoValue
    /\ cc.data.selector = AbiSelectors.execute
    /\ cc.data.args[2] = 0

\* two calls to different targets have been encoded as a batch
C26_WitnessBatch ==
    /\ cc.pc = "encoded"
    /\ Len(cc.calls) = 2
    /\ cc.calls[1].to = "0xAA" /\ cc.calls[2].to = "0xBB"
    /\ cc.data.selector = AbiSelectors.executeBatch
    /\ cc.data.args[1] = <<"0xAA", "0xBB">>

\* ---------------------------------------------------------------- C30
\* C30: in every batch calldata that encodeCalls produces, the arrays dest,
\* value and func each have the length of the input sequence, so that the
\* length requirement of the account contract's executeBatch is met and its
\* 'wrong array lengths' revert does not happen.
C30_BatchLengths ==
    cc.pc \in {"encoded", "decoded", "failed"}
        /\ cc.data.selector = AbiSelectors.executeBatch =>
            /\ Len(cc.data.args[1]) = Len(cc.calls)
            /\ Len(cc.data.args[2]) = Len(cc.calls)
            /\ Len(cc.data.args[3]) = Len(cc.calls)
            /\ cc.lengths \in {"none", "ok"}

\* a batch with a call that names no value has passed the contract's check
C30_Witness ==
    /\ cc.pc = "encoded"
    /\ Len(cc.calls) = 2
    /\ cc.calls[1].value = NoValue
    /\ cc.calls[2].value = 100
    /\ cc.data.selector = AbiSelectors.executeBatch
    /\ cc.lengths = "ok"

\* ---------------------------------------------------------------- C27
\* C27: getAddress of the Simple implementation returns a supplied address
\* without any read; without one it reads the deployer contract's address for
\* (ownerAddress, nonce) and returns it; and once the address is set, by the
\* caller or by a completed read, every later call returns that same address
\* and reads nothing.
C27_AddressState ==
    sa.pc = "run" =>
        \A i \in Accounts :
            LET a == sa.acct[i]
            IN  /\ a.readNow <= 1
                /\ a.hit => a.readNow = 0
                /\ a.addrParam # Undefined =>
                      /\ a.reads = 0
                      /\ a.addrCache = a.addrParam
                /\ a.addrParam = Undefined /\ a.addrCache # Undefined =>
                      a.addrCache = DeriveAddress(a.owner)
                /\ sa.req.op = "getAddress" /\ a.outSt = "ok" =>
                      /\ a.outAddr = AccountAddress(a)
                      /\ a.outAddr = a.addrCache
                      /\ a.asked = 0

C27_AddressMemo ==
    /\ []C27_AddressState
    /\ [][sa.pc = "run" =>
            \A i \in Accounts :
                sa.acct[i].addrCache # Undefined =>
                    /\ sa'.acct[i].addrCache = sa.acct[i].addrCache
                    /\ sa'.acct[i].reads = sa.acct[i].reads]_vars

\* a second getAddress() call, made after the first had read the address, has
\* returned it without reading
C27_Witness ==
    /\ sa.pc = "run"
    /\ sa.req.op = "getAddress"
    /\ sa.acct[1].addrParam = Undefined
    /\ sa.acct[1].n = 2
    /\ sa.acct[1].hit
    /\ sa.acct[1].reads = 1
    /\ sa.acct[1].readNow = 0
    /\ sa.acct[1].outSt = "ok"
    /\ sa.acct[1].outAddr = DeriveAddress(sa.acct[1].owner)

\* a supplied address has been returned without a read
C27_WitnessSupplied ==
    /\ sa.pc = "run"
    /\ sa.req.op = "getAddress"
    /\ sa.acct[2].addrParam = "0xA9"
    /\ sa.acct[2].outSt = "ok"
    /\ sa.acct[2].outAddr = "0xA9"
    /\ sa.acct[2].reads = 0

\* ---------------------------------------------------------------- C28
\* C28: the Simple implementation's own getDeployerArgs() returns, on every
\* call and whether the account is deployed or not, the fixed deployer address
\* and the createAccount calldata for (ownerAddress, nonce); calling it leaves
\* the deployment cache as it was.
C28_FixedPair ==
    fr.pc = "run" /\ fr.op = "implementation.getDeployerArgs" =>
        /\ fr.st = "ok"
        /\ fr.outArgs.deployer = "0x0ba5ed0c6aa8c49038f819e587e2633c4a9f428a"
        /\ fr.outArgs.deployerData = [fn |-> "createAccount", args |-> <<fr.owner, fr.nonce>>]

C28_DeployerArgsConstant ==
    /\ []C28_FixedPair
    /\ [][fr.pc = "run" /\ fr' # fr /\ fr'.op = "implementation.getDeployerArgs"
            => deployed' = deployed]_vars

\* the pair has been returned for a non-default nonce while the cache is true
C28_Witness ==
    /\ deployed
    /\ fr.pc = "run"
    /\ fr.op = "implementation.getDeployerArgs"
    /\ fr.nonce = 3
    /\ fr.outArgs.deployerData.args = <<"0xO1", 3>>

\* and while the cache is false
C28_WitnessNotDeployed ==
    /\ returned
    /\ ~deployed
    /\ fr.pc = "run"
    /\ fr.op = "implementation.getDeployerArgs"
    /\ fr.outArgs.deployer # Undefined

\* ================================================================ progress
\* The operations of Spec, each call kept until the end of the behaviour, under
\* the assumption that every collaborator call (implementation.getAddress,
\* getCode, the implementation's getDeployerArgs and signing functions,
\* nonceKeyManager.consume, the nonce lookup) eventually answers or rejects.

\* a collaborator answers or rejects
CollaboratorAnswers ==
    \/ ResolveAddress
    \/ ResolveAddressFails
    \/ \E c \in InFlight : ProbeReturns(c)
    \/ \E c \in InFlight : ProbeFails(c)
    \/ \E c \in InFlight : ImplArgsReturns(c)
    \/ \E c \in InFlight : ImplArgsFails(c)
    \/ \E c \in InFlight : ImplSignReturns(c)
    \/ \E c \in InFlight : ImplSignFails(c)
    \/ \E c \in InFlight : ConsumeReturns(c)
    \/ \E c \in InFlight : ConsumeFails(c)
    \/ \E c \in InFlight : NonceReturns(c)
    \/ \E c \in InFlight : NonceFails(c)

\* an operation is called on the SmartAccount
OperationCalled ==
    \/ StartIsDeployed
    \/ StartGetDeployerArgs
    \/ \E op \in SignOps : StartSign(op)
    \/ \E k \in Keys \cup {NoKey} : StartGetNonce(k)

NextLive == OperationCalled \/ CollaboratorAnswers

SpecLive == Init /\ [][NextLive]_vars /\ WF_vars(CollaboratorAnswers)

\* a collaborator call of c is outstanding
Awaiting(c) ==
    \/ c.chk \in {"probing", "implArgs"}
    \/ c.sgSt = "pending"
    \/ c.nonceSt \in {"consuming", "implNonce", "lookup"}

\* ---------------------------------------------------------------- C29
\* C29: if every collaborator call eventually answers or rejects, the factory
\* call and every operation called on the SmartAccount eventually delivers its
\* result or its failure to the caller; a call with no collaborator call
\* outstanding has always delivered one.
C29_NoSilentEnd ==
    \A c \in InFlight : ~Awaiting(c) => c.outSt = "ok" \/ IsErr(c.outSt)

C29_AllSettled ==
    /\ phase # "constructing"
    /\ \A c \in InFlight : c.outSt # "pending"

C29_EveryCallEnds ==
    /\ []C29_NoSilentEnd
    /\ <>[]C29_AllSettled

\* a signature operation has delivered a failure and a getNonce() a result
C29_Witness ==
    /\ \E c \in InFlight : c.op = "sign" /\ IsErr(c.outSt) /\ ~Awaiting(c)
    /\ \E c \in InFlight : c.op = "getNonce" /\ c.outSt = "ok" /\ ~Awaiting(c)

\* ================================================================ the account contract
\* SimpleAccount_7560 (src/unnamed/part_003) serving one transaction:
\* validateTransaction, execute or executeBatch, called by some msg.sender.

\* line 19-20
EntryPoint == "0x0000000000000000000000000000000000007560"
\* lines 15, 17
MAGIC_VALUE_SENDER == "0xbf45c166"
MAGIC_VALUE_SIGFAIL == "0x31665494"

\* the contract's `owner` (line 22) and the callers tried
ContractOwner == "0xO1"
Stranger == "0xStranger"
Senders == {EntryPoint, ContractOwner, Stranger}

RevertNotEntryPoint == "revert: account: not from EntryPoint"
RevertNotOwnerOrEntryPoint == "revert: account: not Owner or EntryPoint"
RevertWrongLengths == "revert: wrong array lengths"
RevertBubbled == "revert: reason of the failed call"

\* lines 119-124
requireFromEntryPoint(sender) ==
    IF sender = EntryPoint THEN "ok" ELSE RevertNotEntryPoint

\* variant: anyone may call
requireFromEntryPointOrOwner_anyone(sender, own) == "ok"

\* lines 126-131
requireFromEntryPointOrOwner(sender, own) ==
    IF sender = EntryPoint \/ sender = own THEN "ok" ELSE RevertNotOwnerOrEntryPoint

\* a secp256k1 signature of `hash` by the key of `signer`
EcdsaSign(signer, hash) == <<signer>> \o hash

\* ECDSA.recover(hash, signature): the signer when the signature was made over
\* this hash, an unrelated address otherwise
EcdsaRecover(hash, sig) ==
    IF Len(sig) >= 1 /\ Tail(sig) = hash THEN Head(sig) ELSE "0xUnrelated"

\* MessageHashUtils.toEthSignedMessageHash(bytes32)
toEthSignedMessageHash(h) == <<"eip191(">> \o h \o <<")">>

\* owner.sign({hash}) of lines 1158-1165: the owner's raw signature over hash
OwnerRawSign(signer, hash) == EcdsaSign(signer, hash)

\* lines 95-108; _packValidationData(magic, 0, 0) is written as its magic value
validateSignature(own, txHash, authorizationData) ==
    IF own # EcdsaRecover(toEthSignedMessageHash(txHash), authorizationData)
    THEN MAGIC_VALUE_SIGFAIL
    ELSE MAGIC_VALUE_SENDER

\* lines 86-92: the value sent with call k of a batch
BatchValue(value, k) == IF Len(value) = 0 THEN 0 ELSE value[k]

\* call k of the transaction being served
ContractCallAt(c, k) ==
    [to    |-> c.dest[k],
     value |-> IF c.fn = "execute" THEN c.value[k] ELSE BatchValue(c.value, k),
     data  |-> c.func[k]]

\* variant: the calls made before the failing one stay
AfterRevert_keepsEarlier(effects, journal) ==
    effects \o SubSeq(journal, 1, Len(journal) - 1)

\* lines 110-117: the revert in _call undoes everything the transaction did
AfterRevert(effects, journal) == effects

\* the account (sender) and chain that signTransaction binds into a transaction
ContractAccount == DeriveAddress(ContractOwner)

\* what signTransaction (lines 1125-1139) hands to owner.sign for tx
SignedTxHash(tx) ==
    OwnerInput([op |-> "signTransaction", input |-> <<>>, tx |-> tx], ContractAccount, 1)

NoCall == [pc |-> "called", owner |-> ContractOwner, sender |-> EntryPoint, fn |-> "none",
           dest |-> <<>>, value |-> <<>>, func |-> <<>>,
           tx |-> NoTx, txHash |-> <<>>, auth |-> <<>>,
           i |-> 0, journal |-> <<>>, before |-> <<>>, effects |-> <<>>, ret |-> "none"]

\* what earlier transactions have left behind
PriorEffects == {<<>>, <<[to |-> "0xAA", value |-> 0, data |-> "0x"]>>}

ExecuteInputs ==
    {[NoCall EXCEPT !.fn = "execute", !.dest = <<d>>, !.value = <<v>>, !.func = <<"0x12">>] :
        d \in CallTargets, v \in {0, 7}}

ExecuteBatchInputs ==
    {[NoCall EXCEPT !.fn = "executeBatch", !.dest = d, !.value = v, !.func = f] :
        d \in SeqsUpTo(CallTargets, MaxBatch),
        v \in SeqsUpTo({1, 2}, MaxBatch),
        f \in SeqsUpTo({"0x12"}, MaxBatch)}

\* validateTransaction with txHash = keccak256 of the serialization that
\* signTransaction hashes; authorizationData is the signature signTransaction
\* returns, the owner's signature over the prefixed hash, or a stranger's
ValidateInputs ==
    {[NoCall EXCEPT !.fn = "validateTransaction", !.tx = t, !.txHash = SignedTxHash(t), !.auth = a] :
        t \in TxInputs,
        a \in {OwnerRawSign(ContractOwner, SignedTxHash(u)) : u \in TxInputs}
              \cup {OwnerRawSign(ContractOwner, toEthSignedMessageHash(SignedTxHash(u))) : u \in TxInputs}
              \cup {OwnerRawSign(Stranger, SignedTxHash(u)) : u \in TxInputs}}

InitContract ==
    /\ FactoryIdle
    /\ cc = CcIdle
    /\ sa = SaIdle
    /\ tw = TwIdle
    /\ ob = ObIdle
    /\ fr = FrIdle
    /\ \E c \in ExecuteInputs \cup ExecuteBatchInputs \cup ValidateInputs,
          s \in Senders, e \in PriorEffects :
          ct = [c EXCEPT !.sender = s, !.before = e, !.effects = e]

\* the number of calls the transaction asks for
ContractCallCount(c) == Len(c.dest)

\* the transaction ends in a revert: nothing it did persists
Reverted(c, reason) ==
    [c EXCEPT !.pc = "done", !.ret = reason, !.effects = AfterRevert(c.before, c.journal)]

\* the transaction ends well: what it did persists
Committed(c) ==
    [c EXCEPT !.pc = "done", !.ret = "ok", !.effects = c.before \o c.journal]

\* the contract issues call k (target.call{value}(data), line 111)
IssueCall(c, k) ==
    [c EXCEPT !.pc = "running", !.i = k, !.journal = Append(c.journal, ContractCallAt(c, k))]

\* validateTransaction (lines 54-62)
ContractValidate ==
    /\ ct.pc = "called"
    /\ ct.fn = "validateTransaction"
    /\ LET r == requireFromEntryPoint(ct.sender)
       IN  ct' = IF r # "ok"
                 THEN Reverted(ct, r)
                 ELSE [ct EXCEPT !.pc = "done",
                                 !.ret = validateSignature(ct.owner, ct.txHash, ct.auth)]
    /\ UNCHANGED <<factoryVars, cc, sa, tw, ob, fr>>

\* execute (lines 64-71) up to its call
ContractExecute ==
    /\ ct.pc = "called"
    /\ ct.fn = "execute"
    /\ LET r == requireFromEntryPointOrOwner(ct.sender, ct.owner)
       IN  ct' = IF r # "ok" THEN Reverted(ct, r) ELSE IssueCall(ct, 1)
    /\ UNCHANGED <<factoryVars, cc, sa, tw, ob, fr>>

\* executeBatch (lines 73-93) up to its first call
ContractExecuteBatch ==
    /\ ct.pc = "called"
    /\ ct.fn = "executeBatch"
    /\ LET r == requireFromEntryPointOrOwner(ct.sender, ct.owner)
           l == executeBatchLengths(ct.dest, ct.value, ct.func)
       IN  ct' = IF r # "ok" THEN Reverted(ct, r)
                 ELSE IF l # "ok" THEN Reverted(ct, RevertWrongLengths)
                 ELSE IF ContractCallCount(ct) = 0 THEN Committed(ct)
                 ELSE IssueCall(ct, 1)
    /\ UNCHANGED <<factoryVars, cc, sa, tw, ob, fr>>

\* the call succeeds: the loop goes on to the next index, or the function ends
ContractCallSucceeds ==
    /\ ct.pc = "running"
    /\ ct' = IF ct.i < ContractCallCount(ct) THEN IssueCall(ct, ct.i + 1) ELSE Committed(ct)
    /\ UNCHANGED <<factoryVars, cc, sa, tw, ob, fr>>

\* the call fails: _call reverts with the call's reason (lines 112-116)
ContractCallFails ==
    /\ ct.pc = "running"
    /\ ct' = Reverted(ct, RevertBubbled)
    /\ UNCHANGED <<factoryVars, cc, sa, tw, ob, fr>>

NextContract ==
    \/ ContractValidate
    \/ ContractExecute
    \/ ContractExecuteBatch
    \/ ContractCallSucceeds
    \/ ContractCallFails

SpecContract == InitContract /\ [][NextContract]_vars

\* ---------------------------------------------------------------- C31
\* C31: when the entry point calls validateTransaction with txHash = the hash
\* signTransaction computed for the transaction and authorizationData = the
\* signature signTransaction returned for it, the contract recovers the owner
\* from the hash the owner signed and answers MAGIC_VALUE_SENDER, not
\* MAGIC_VALUE_SIGFAIL.
C31_OwnerSignedValidates ==
    ct.pc = "done" /\ ct.fn = "validateTransaction" /\ ct.sender = EntryPoint
        /\ ct.txHash = SignedTxHash(ct.tx)
        /\ ct.auth = OwnerRawSign(ct.owner, SignedTxHash(ct.tx)) =>
            /\ toEthSignedMessageHash(ct.txHash) = SignedTxHash(ct.tx)
            /\ ct.ret = MAGIC_VALUE_SENDER

\* ---------------------------------------------------------------- C32
\* C32: execute and executeBatch make no external call unless msg.sender is the
\* entry point or the owner, and validateTransaction returns a value only to
\* the entry point; for any other caller the transaction reverts and leaves
\* the state as it was.
UnauthorisedCaller(c) ==
    \/ c.fn \in {"execute", "executeBatch"} /\ c.sender \notin {EntryPoint, c.owner}
    \/ c.fn = "validateTransaction" /\ c.sender # EntryPoint

C32_OnlyAuthorisedCallers ==
    ct.pc \in {"running", "done"} =>
        /\ ct.journal # <<>> => ct.sender \in {EntryPoint, ct.owner}
        /\ ct.ret \in {MAGIC_VALUE_SENDER, MAGIC_VALUE_SIGFAIL} =>
              ct.fn = "validateTransaction" /\ ct.sender = EntryPoint
        /\ UnauthorisedCaller(ct) =>
              /\ ct.pc = "done"
              /\ ct.ret = IF ct.fn = "validateTransaction"
                          THEN "revert: account: not from EntryPoint"
                          ELSE "revert: account: not Owner or EntryPoint"
              /\ ct.journal = <<>>
              /\ ct.effects = ct.before
              /\ ct.owner = ContractOwner

\* a stranger's well-formed batch has been turned away
C32_Witness ==
    /\ ct.pc = "done"
    /\ ct.fn = "executeBatch"
    /\ ct.sender = Stranger
    /\ Len(ct.dest) = 2 /\ Len(ct.func) = 2 /\ Len(ct.value) = 2
    /\ ct.before # <<>>
    /\ ct.effects = ct.before
    /\ ct.ret = RevertNotOwnerOrEntryPoint

\* the owner's execute has made its call
C32_WitnessOwner ==
    /\ ct.pc = "done"
    /\ ct.fn = "execute"
    /\ ct.sender = ContractOwner
    /\ ct.ret = "ok"
    /\ Len(ct.journal) = 1

\* ---------------------------------------------------------------- C33
\* C33: executeBatch makes its calls in increasing index order, call k going
\* to dest[k] with func[k] and with value[k], or with 0 when the value array
\* is empty; when a call fails the whole batch reverts and nothing of the
\* earlier calls persists, and only a batch whose calls all succeeded leaves
\* its effects.
C33_BatchOrderAtomic ==
    ct.pc \in {"running", "done"} /\ ct.fn = "executeBatch" =>
        /\ Len(ct.journal) <= Len(ct.dest)
        /\ ct.pc = "running" => Len(ct.journal) = ct.i
        /\ \A k \in 1..Len(ct.journal) :
              /\ ct.journal[k].to = ct.dest[k]
              /\ ct.journal[k].data = ct.func[k]
              /\ ct.journal[k].value = IF ct.value = <<>> THEN 0 ELSE ct.value[k]
        /\ ct.pc = "running" => ct.effects = ct.before
        /\ ct.pc = "done" /\ ct.ret = "ok" =>
              /\ Len(ct.journal) = Len(ct.dest)
              /\ ct.effects = ct.before \o ct.journal
        /\ ct.pc = "done" /\ ct.ret # "ok" => ct.effects = ct.before

\* the second call of a batch without values has failed after the first succeeded
C33_Witness ==
    /\ ct.pc = "done"
    /\ ct.fn = "executeBatch"
    /\ ct.value = <<>>
    /\ ct.dest = <<"0xAA", "0xBB">>
    /\ Len(ct.journal) = 2
    /\ ct.journal[1].value = 0
    /\ ct.ret = RevertBubbled
    /\ ct.before # <<>>
    /\ ct.effects = ct.before

\* a batch with values has gone through in order
C33_WitnessCommitted ==
    /\ ct.pc = "done"
    /\ ct.fn = "executeBatch"
    /\ ct.value = <<1, 2>>
    /\ ct.dest = <<"0xBB", "0xAA">>
    /\ ct.ret = "ok"
    /\ ct.effects = ct.before \o <<[to |-> "0xBB", value |-> 1, data |-> "0x12"],
                                   [to |-> "0xAA", value |-> 2, data |-> "0x12"]>>

====
